---------------------------- MODULE Spec2Model ----------------------------
(***************************************************************************)
(* Routing and safety core of the Atlas building chatbot: the SQL Safety   *)
(* Gate (router._ensure_safe_select, DuckDBClient.ensure_safe_select), the *)
(* Pattern Intent Matcher (router._fast_intent), the staged router         *)
(* (NLRouter.infer) and the execution paths (Chatbot.ask, AgentPro.run).   *)
(*                                                                         *)
(* Python strings are TLA+ strings; TLC evaluates Len, SubSeq and \o on    *)
(* them character by character, so every text test of the source          *)
(* (substring, prefix, regular expression) is computed on the characters.  *)
(* The texts are ASCII: TLA+ string literals cannot hold other characters, *)
(* so the Dutch keywords of the source are kept and its Arabic keywords,   *)
(* which no ASCII question can contain, are left out of the keyword sets.  *)
(***************************************************************************)
EXTENDS Integers, Sequences, FiniteSets, TLC

VARIABLES
    sql,        \* SpecGate: the string handed to the Safety Gate
    gate,       \* SpecGate: which gate is applied: "none", "router" or "db"
    passes,     \* SpecGate: how many times the gate has been applied
    first,      \* SpecGate: the outcome of the first application
    second,     \* SpecGate: the outcome of applying the gate to first.val
    HAS_SQLGLOT, \* db.py: whether the import of sqlglot succeeded
    question,   \* SpecIntent: the text handed to _fast_intent
    asked,      \* SpecIntent: whether _fast_intent has returned
    decision,   \* SpecIntent: what _fast_intent returned
    FAST_INTENTS, \* router.py: the flag of the Pattern Intent Matcher
    FAST_SQL,     \* router.py: the flag of the Templated SQL Matcher
    LLM_ROUTING,  \* router.py: the flag of the model-assisted stage
    STRICT_MODE,  \* router.py: refuse instead of returning free text
    user_text,  \* the text handed to the handler
    strict,     \* Chatbot.ask: its strict parameter
    llm,        \* what the language-model client does when it is called
    handler,    \* which handler has run: "none" before the call
    result,     \* what the handler returned or raised
    log,        \* the stages consulted and external calls made, in order
    events,     \* SpecCompare: the sensor events the connection reads
    rows,       \* SpecCompare: the table the executed statement produced
    router,     \* SpecSession: the fields of the NLRouter object
    history,    \* SpecSession: the history argument of the latest infer call
    fresh,      \* SpecSession: what a new router returns for the same question, asked without history
    turn,       \* SpecSession: how many infer calls the router has served
    _agent,     \* SpecAgent: the field Chatbot._agent
    askpc,      \* SpecAgent: where each concurrent Chatbot.ask call stands
    built,      \* SpecAgent: the agents constructed so far
    used        \* SpecAgent: the agent each call ran its turn on

gateVars == <<sql, gate, passes, first, second, HAS_SQLGLOT>>

intentVars == <<question, asked, decision>>

flagVars == <<FAST_INTENTS, FAST_SQL, LLM_ROUTING, STRICT_MODE>>

turnVars == <<flagVars, user_text, strict, llm, handler, result, log>>

dataVars == <<events, rows>>

sessionVars == <<router, history, fresh, turn>>

agentVars == <<_agent, askpc, built, used>>

vars == <<gateVars, intentVars, turnVars, dataVars, sessionVars, agentVars>>

(***************************************************************************)
(* Python str and re primitives                                            *)
(***************************************************************************)

\* s[i] as a one-character string
Ch(s, i) == SubSeq(s, i, i)

\* s[i-1:] (1-based i)
From(s, i) == SubSeq(s, i, Len(s))

\* s.startswith(p) at offset i (1-based): re's literal match at a position
MatchAt(s, i, p) == i >= 1 /\ i + Len(p) - 1 <= Len(s) /\ SubSeq(s, i, i + Len(p) - 1) = p

\* `n in h` for strings
Contains(h, n) == \E i \in 1..(Len(h) - Len(n) + 1) : MatchAt(h, i, n)

\* s.startswith(p)
StartsWith(s, p) == MatchAt(s, 1, p)

UpperLetters == "ABCDEFGHIJKLMNOPQRSTUVWXYZ"

LowerLetters == "abcdefghijklmnopqrstuvwxyz"

LowerMap == [c \in {Ch(UpperLetters, i) : i \in 1..26} |->
               Ch(LowerLetters, CHOOSE i \in 1..26 : Ch(UpperLetters, i) = c)]

LowerCh(c) == IF c \in DOMAIN LowerMap THEN LowerMap[c] ELSE c

\* the characters i..j of s in lower case (halving keeps the recursion shallow)
RECURSIVE LowerRange(_, _, _)
LowerRange(s, i, j) ==
    IF i > j THEN ""
    ELSE IF i = j THEN LowerCh(Ch(s, i))
    ELSE LET m == (i + j) \div 2 IN LowerRange(s, i, m) \o LowerRange(s, m + 1, j)

\* str.lower()
Lower(s) == LowerRange(s, 1, Len(s))

\* the characters str.strip() removes and \s matches
Whitespace == {" ", "\t", "\n", "\r", "\f"}

Min(S) == CHOOSE x \in S : \A y \in S : x <= y

Max(S) == CHOOSE x \in S : \A y \in S : x >= y

\* str.strip()
Strip(s) ==
    LET n == Len(s)
        lead == Cardinality({i \in 1..n : \A j \in 1..i : Ch(s, j) \in Whitespace})
        trail == Cardinality({i \in 1..n : \A j \in i..n : Ch(s, j) \in Whitespace})
    IN IF lead = n THEN "" ELSE SubSeq(s, lead + 1, n - trail)

Digits == "0123456789"

IsDigit(c) == \E i \in 1..10 : Ch(Digits, i) = c

DigitVal(c) == (CHOOSE i \in 1..10 : Ch(Digits, i) = c) - 1

RECURSIVE NatToStr(_)
NatToStr(n) == IF n < 10 THEN Ch(Digits, n + 1) ELSE NatToStr(n \div 10) \o Ch(Digits, (n % 10) + 1)

\* str(n) and f"{n}" for an int
IntToStr(n) == IF n < 0 THEN "-" \o NatToStr(0 - n) ELSE NatToStr(n)

\* the characters of a string, as a set
CharSet(str) == {Ch(str, i) : i \in 1..Len(str)}

\* the characters re's \w matches
WordChars == CharSet(LowerLetters) \cup CharSet(UpperLetters) \cup CharSet(Digits) \cup {"_"}

IsWordAt(s, i) == i >= 1 /\ i <= Len(s) /\ Ch(s, i) \in WordChars

\* re's \b between s[i-1] and s[i] (1-based; i = 1 and i = Len(s)+1 are the ends)
Boundary(s, i) == IsWordAt(s, i - 1) # IsWordAt(s, i)

\* re's \s* from position i: the first position that is not whitespace
SkipWs(s, i) == Min({k \in i..(Len(s) + 1) : k = Len(s) + 1 \/ Ch(s, k) \notin Whitespace})

\* re's greedy \d* from position i: the first position that is not a digit
DigitsEnd(s, i) == Min({k \in i..(Len(s) + 1) : k = Len(s) + 1 \/ ~IsDigit(Ch(s, k))})

\* re's [+-]?\d+ at position i: the position after the match, 0 without a match
SignedNumberEnd(s, i) ==
    LET j == IF i <= Len(s) /\ Ch(s, i) \in {"+", "-"} THEN i + 1 ELSE i
        e == IF j <= Len(s) + 1 THEN DigitsEnd(s, j) ELSE j
    IN IF e > j THEN e ELSE 0

RECURSIVE StrToNat(_)
StrToNat(d) == IF Len(d) = 0 THEN 0
               ELSE 10 * StrToNat(SubSeq(d, 1, Len(d) - 1)) + DigitVal(Ch(d, Len(d)))

\* int(text) for an optionally signed run of digits
StrToInt(x) == IF Ch(x, 1) = "-" THEN 0 - StrToNat(From(x, 2))
               ELSE IF Ch(x, 1) = "+" THEN StrToNat(From(x, 2))
               ELSE StrToNat(x)

\* the strings of the sequence f at i..j, concatenated
RECURSIVE JoinRange(_, _, _)
JoinRange(f, i, j) ==
    IF i > j THEN ""
    ELSE IF i = j THEN f[i]
    ELSE LET m == (i + j) \div 2 IN JoinRange(f, i, m) \o JoinRange(f, m + 1, j)

\* Python values: None, str, int, bool, float (num/den) and dict
PyNone == <<"None">>

PyStr(s) == <<"str", s>>

PyInt(n) == <<"int", n>>

PyBool(b) == <<"bool", b>>

PyFloat(num, den) == <<"float", num, den>>

\* a dict as the set of its <<key, value>> items
PyDict(items) == <<"dict", items>>

\* Python truthiness, as `x or default` and `if x:` test it
Truthy(v) == CASE v[1] = "None" -> FALSE
               [] v[1] = "str" -> v[2] # ""
               [] v[1] = "int" -> v[2] # 0
               [] v[1] = "float" -> v[2] # 0
               [] v[1] = "bool" -> v[2]
               [] v[1] = "dict" -> v[2] # {}
               [] OTHER -> TRUE

\* `x or default`
OrElse(v, default) == IF Truthy(v) THEN v ELSE default

(***************************************************************************)
(* SQL Safety Gate                                                         *)
(***************************************************************************)

\* router.py: MAX_ROWS = int(os.getenv("MAX_ROWS", "500")), the default
MAX_ROWS == 500

\* db.py: MAX_ROWS = 500
DB_MAX_ROWS == 500

\* router.py _BANNED
ROUTER_BANNED == {"insert", "update", "delete", "alter", "drop", "create", "attach", "copy", "pragma"}

\* db.py _BANNED (each entry carries its own surrounding spaces)
DB_BANNED == {" insert ", " update ", " delete ", " drop ", " alter ", " create table ",
              " attach ", " copy ", " pragma ", " call ", " replace into "}

Ok(v) == [ok |-> TRUE, val |-> v, err |-> ""]

Err(e) == [ok |-> FALSE, val |-> "", err |-> e]

\* The tokenizer of sqlglot drops a `--` comment up to the end of its line:
\* the positions of s that lie in such a comment.
CommentPositions(s) ==
    LET starts == {j \in 1..Len(s) : MatchAt(s, j, "--")} IN
    {i \in 1..Len(s) : \E j \in starts : j <= i /\ \A k \in j..i : Ch(s, k) # "\n"}

\* <<depth at the end, lowest depth on the way>> of the parentheses of the
\* characters i..j of s outside the positions skip
RECURSIVE ParenDepth(_, _, _, _)
ParenDepth(s, skip, i, j) ==
    IF i > j THEN <<0, 0>>
    ELSE IF i = j
         THEN IF i \in skip THEN <<0, 0>>
              ELSE IF Ch(s, i) = "(" THEN <<1, 0>>
              ELSE IF Ch(s, i) = ")" THEN <<0 - 1, 0 - 1>>
              ELSE <<0, 0>>
    ELSE LET m == (i + j) \div 2
             l == ParenDepth(s, skip, i, m)
             r == ParenDepth(s, skip, m + 1, j)
         IN <<l[1] + r[1], IF l[2] <= l[1] + r[2] THEN l[2] ELSE l[1] + r[2]>>

\* parse_one(sql, read="duckdb") of the sqlglot library: TRUE when it returns,
\* FALSE when it raises ParseError.  The library is not part of the
\* repository; of its grammar the model keeps what the gate's textual
\* wrapping interacts with: comments are dropped by the tokenizer and the
\* parentheses of the remaining tokens must balance.
parse_one(s) == ParenDepth(s, CommentPositions(s), 1, Len(s)) = <<0, 0>>

\* a gate that looks for the separator only at the end of the statement
RouterMultiStatementTrailing(s) == LET x == Strip(s) IN Len(x) > 0 /\ Ch(x, Len(x)) = ";"

\* router.py:27  `";" in sql`
RouterMultiStatement(s) == Contains(s, ";")

\* a gate that looks for `select` or `with` anywhere in the statement
RouterNotSelectAnywhere(low) == ~(Contains(low, "select") \/ Contains(low, "with"))

\* router.py:29  `not (low.startswith("select") or low.startswith("with"))`
RouterNotSelect(low) == ~(StartsWith(low, "select") \/ StartsWith(low, "with"))

\* router.py:31  `any(f" {kw} " in f" {low} " for kw in _BANNED)`
RouterUnsafeKeyword(low) ==
    \E kw \in ROUTER_BANNED : Contains(" " \o low \o " ", " " \o kw \o " ")

\* router.py:37  `" limit " not in f" {low} "`
RouterNoLimit(low) == ~Contains(" " \o low \o " ", " limit ")

\* router.py:38  the statement as a subquery under the row cap
RouterWrap(s) == "SELECT * FROM (" \o s \o ") AS _t LIMIT " \o IntToStr(MAX_ROWS)

\* router._ensure_safe_select
RouterEnsureSafeSelect(s) ==
    LET low == Strip(Lower(s)) IN
    IF RouterMultiStatement(s) THEN Err("Multiple statements not allowed.")
    ELSE IF RouterNotSelect(low) THEN Err("Only SELECT (or WITH ... SELECT) allowed.")
    ELSE IF RouterUnsafeKeyword(low) THEN Err("Unsafe keyword detected.")
    ELSE IF ~parse_one(s) THEN Err("SQL parse error")
    ELSE IF RouterNoLimit(low) THEN Ok(RouterWrap(s))
    ELSE Ok(s)

\* db.py:121  `";" in sql`
DbMultiStatement(s) == Contains(s, ";")

\* db.py:123  `not (low.strip().startswith("select") or low.strip().startswith("with"))`
DbNotSelect(low) == ~(StartsWith(Strip(low), "select") \/ StartsWith(Strip(low), "with"))

\* db.py:125  `any(kw in low for kw in _BANNED)`
DbUnsafeKeyword(low) == \E kw \in DB_BANNED : Contains(low, kw)

\* db.py:132  `" limit " not in low`
DbNoLimit(low) == ~Contains(low, " limit ")

\* db.py:133  the statement as a subquery under the row cap
DbWrap(s) == "SELECT * FROM (" \o s \o ") AS _safe LIMIT " \o IntToStr(DB_MAX_ROWS)

\* DuckDBClient.ensure_safe_select
DbEnsureSafeSelect(s, hasSqlglot) ==
    LET low == " " \o Strip(Lower(s)) \o " " IN
    IF DbMultiStatement(s) THEN Err("Multiple statements not allowed.")
    ELSE IF DbNotSelect(low) THEN Err("Only SELECT/WITH allowed.")
    ELSE IF DbUnsafeKeyword(low) THEN Err("Unsafe keyword detected.")
    ELSE IF hasSqlglot /\ ~parse_one(s) THEN Err("SQL parse error")
    ELSE IF DbNoLimit(low) THEN Ok(DbWrap(s))
    ELSE Ok(s)

(***************************************************************************)
(* Pattern Intent Matcher: the extractors                                  *)
(***************************************************************************)

\* the match of re.search, or its absence
NoMatch == [found |-> FALSE, group |-> ""]

Match(g) == [found |-> TRUE, group |-> g]

\* re.search(r"(-?\d+)", text): the leftmost run of digits, with its minus sign
SearchInt(text) ==
    LET hits == {i \in 1..Len(text) :
                    \/ IsDigit(Ch(text, i))
                    \/ Ch(text, i) = "-" /\ i < Len(text) /\ IsDigit(Ch(text, i + 1))}
    IN IF hits = {} THEN NoMatch
       ELSE LET i == Min(hits)
                j == IF Ch(text, i) = "-" THEN i + 1 ELSE i
            IN Match(SubSeq(text, i, DigitsEnd(text, j) - 1))

\* router._parse_int
_parse_int(text) ==
    LET m == SearchInt(text) IN IF m.found THEN PyInt(StrToInt(m.group)) ELSE PyNone

\* re.search(r"(?:kw1|kw2|...)\s*([+-]?\d+)", text): group 1 of the leftmost match
SearchKeywordNumber(text, kws) ==
    LET numberAt(i, kw) == SkipWs(text, i + Len(kw))
        hits == {i \in 1..Len(text) : \E kw \in kws :
                    MatchAt(text, i, kw) /\ SignedNumberEnd(text, numberAt(i, kw)) > 0}
    IN IF hits = {} THEN NoMatch
       ELSE LET i == Min(hits)
                kw == CHOOSE w \in kws :
                          MatchAt(text, i, w) /\ SignedNumberEnd(text, numberAt(i, w)) > 0
                b == numberAt(i, kw)
            IN Match(SubSeq(text, b, SignedNumberEnd(text, b) - 1))

\* re.search(r"\b([+-]?\d{1,2})\b", text): a lone token of one or two digits
SearchSmallInt(text) ==
    LET digitsFrom(i) == IF i <= Len(text) /\ Ch(text, i) \in {"+", "-"} THEN i + 1 ELSE i
        run(i) == IF digitsFrom(i) <= Len(text) THEN DigitsEnd(text, digitsFrom(i)) - digitsFrom(i)
                  ELSE 0
        hits == {i \in 1..Len(text) :
                    /\ Boundary(text, i)
                    /\ run(i) \in {1, 2}
                    /\ ~IsWordAt(text, digitsFrom(i) + run(i))}
    IN IF hits = {} THEN NoMatch
       ELSE LET i == Min(hits) IN Match(SubSeq(text, i, digitsFrom(i) + run(i) - 1))

\* router.py:47  the floor keywords of _parse_floor (verdiep(?:ing)? spelt out)
PARSE_FLOOR_KEYWORDS == {"floor", "level", "storey", "verdiep", "verdieping"}

\* router._parse_floor (re.I: the keyword is matched on the lowercased text,
\* the group is a sign and digits, which lowercasing leaves alone)
_parse_floor(text) ==
    LET m == SearchKeywordNumber(Lower(text), PARSE_FLOOR_KEYWORDS) IN
    IF m.found THEN PyStr(m.group)
    ELSE LET m2 == SearchSmallInt(text) IN
         IF m2.found THEN PyStr(m2.group) ELSE PyNone

\* re.search(r"\b(kw1|kw2|...)\b", text) is not None
SearchWholeWord(text, kws) ==
    \E kw \in kws : \E i \in 1..Len(text) :
        MatchAt(text, i, kw) /\ Boundary(text, i) /\ Boundary(text, i + Len(kw))

\* re.search(r"(last|past)\s+(\d+)\s*(day|days|week|weeks|month|months)", ql):
\* <<group 2, group 3>> of the leftmost match
SearchLastN(ql) ==
    LET digitsAt(i) == SkipWs(ql, i + 4)
        unitAt(i) == SkipWs(ql, DigitsEnd(ql, digitsAt(i)))
        hits == {i \in 1..Len(ql) :
                    /\ MatchAt(ql, i, "last") \/ MatchAt(ql, i, "past")
                    /\ i + 4 <= Len(ql) /\ Ch(ql, i + 4) \in Whitespace
                    /\ digitsAt(i) <= Len(ql) /\ IsDigit(Ch(ql, digitsAt(i)))
                    /\ \E u \in {"day", "week", "month"} : MatchAt(ql, unitAt(i), u)}
    IN IF hits = {} THEN NoMatch
       ELSE LET i == Min(hits) IN
            Match(<<SubSeq(ql, digitsAt(i), DigitsEnd(ql, digitsAt(i)) - 1),
                    CHOOSE u \in {"day", "week", "month"} : MatchAt(ql, unitAt(i), u)>>)

\* a reading of the window in which weeks count as single days
_parse_days_hours_WeeksAsDays(q) ==
    LET ql == Lower(q)
        m == SearchLastN(ql)
    IN IF SearchWholeWord(ql, {"now", "right now", "currently", "this moment"})
       THEN <<PyNone, PyInt(1)>>
       ELSE IF m.found
       THEN LET n == StrToInt(m.group[1])
                unit == m.group[2]
            IN IF StartsWith(unit, "month") THEN <<PyInt(n * 30), PyNone>>
               ELSE <<PyInt(n), PyNone>>
       ELSE IF Contains(ql, "last week") \/ Contains(ql, "past week") THEN <<PyInt(7), PyNone>>
       ELSE IF Contains(ql, "last month") \/ Contains(ql, "past month") THEN <<PyInt(30), PyNone>>
       ELSE <<PyNone, PyNone>>

\* router._parse_days_hours: <<days, hours>>
_parse_days_hours(q) ==
    LET ql == Lower(q)
        m == SearchLastN(ql)
    IN IF SearchWholeWord(ql, {"now", "right now", "currently", "this moment"})
       THEN <<PyNone, PyInt(1)>>
       ELSE IF m.found
       THEN LET n == StrToInt(m.group[1])
                unit == m.group[2]
            IN IF StartsWith(unit, "week") THEN <<PyInt(n * 7), PyNone>>
               ELSE IF StartsWith(unit, "month") THEN <<PyInt(n * 30), PyNone>>
               ELSE <<PyInt(n), PyNone>>
       ELSE IF Contains(ql, "last week") \/ Contains(ql, "past week") THEN <<PyInt(7), PyNone>>
       ELSE IF Contains(ql, "last month") \/ Contains(ql, "past month") THEN <<PyInt(30), PyNone>>
       ELSE <<PyNone, PyNone>>

\* re.search(r"(?:<|below|under)\s*(\d+)\s*%?", q): group 1 of the leftmost match
SearchThreshold(q) ==
    LET kws == {"<", "below", "under"}
        digitsAt(i, kw) == SkipWs(q, i + Len(kw))
        ok(i, kw) == MatchAt(q, i, kw) /\ digitsAt(i, kw) <= Len(q) /\ IsDigit(Ch(q, digitsAt(i, kw)))
        hits == {i \in 1..Len(q) : \E kw \in kws : ok(i, kw)}
    IN IF hits = {} THEN NoMatch
       ELSE LET i == Min(hits)
                kw == CHOOSE w \in kws : ok(i, w)
                b == digitsAt(i, kw)
            IN Match(SubSeq(q, b, DigitsEnd(q, b) - 1))

\* router._parse_threshold_percent: int(group)/100.0 as the fraction over 100
_parse_threshold_percent(q) ==
    LET m == SearchThreshold(q) IN
    IF m.found THEN PyFloat(StrToInt(m.group), 100) ELSE PyNone

\* re.sub(r"\s+", " ", ql): each run of whitespace becomes one space
CollapseWhitespace(ql) ==
    LET piece(i) == IF Ch(ql, i) \notin Whitespace THEN Ch(ql, i)
                    ELSE IF i = 1 \/ Ch(ql, i - 1) \notin Whitespace THEN " "
                    ELSE ""
    IN JoinRange([i \in 1..Len(ql) |-> piece(i)], 1, Len(ql))

\* router._normalize_text: lowercase, strip accents (NFKD, which leaves ASCII
\* text as it is), collapse whitespace, strip
_normalize_text(q) == Strip(CollapseWhitespace(Lower(q)))

\* router._LIST_VERBS (ASCII entries)
_LIST_VERBS == {"list", "show", "which", "what", "what are", "give me", "display", "enumerate",
                "all", "toon", "laat zien", "welke", "wat zijn", "geef me", "alle"}

\* router._FLOOR_WORDS (ASCII entries)
_FLOOR_WORDS == {"floor", "floors", "level", "levels", "storey", "storeys", "story", "stories",
                 "verdieping", "verdiepingen", "etage", "etages", "niveau", "niveaus"}

\* router._ROOM_WORDS (ASCII entries)
_ROOM_WORDS == {"room", "rooms", "ruimte", "ruimtes", "kamer", "kamers"}

\* router._contains_any
_contains_any(haystack, keywords) == \E kw \in keywords : Contains(haystack, kw)

\* router.py:138  the short asks (ASCII entries)
SHORT_FLOOR_ASKS == {"floors", "list floors", "levels", "show floors", "welke verdiepingen",
                     "toon verdiepingen"}

\* router._intent_list_floors
_intent_list_floors(q) ==
    LET qn == _normalize_text(q) IN
    \/ qn \in SHORT_FLOOR_ASKS
    \/ _contains_any(qn, _LIST_VERBS) /\ _contains_any(qn, _FLOOR_WORDS)

\* router.py:154  the floor keywords of _intent_rooms_on_floor (ASCII entries)
ROOMS_FLOOR_KEYWORDS == {"floor", "level", "storey", "verdiep", "verdieping", "etage"}

\* re.search(r"\b(\d)\.(?:\d{2,3})\b", qn): group 1 of the leftmost match
SearchRoomCode(qn) ==
    LET run(i) == IF i + 2 <= Len(qn) THEN DigitsEnd(qn, i + 2) - (i + 2) ELSE 0
        hits == {i \in 1..Len(qn) :
                    /\ Boundary(qn, i) /\ IsDigit(Ch(qn, i))
                    /\ MatchAt(qn, i + 1, ".")
                    /\ run(i) \in {2, 3}
                    /\ ~IsWordAt(qn, i + 2 + run(i))}
    IN IF hits = {} THEN NoMatch ELSE Match(Ch(qn, Min(hits)))

\* router._intent_rooms_on_floor: the floor as an int, or None
_intent_rooms_on_floor(q) ==
    LET qn == _normalize_text(q)
        m == SearchKeywordNumber(qn, ROOMS_FLOOR_KEYWORDS)
        m2 == SearchRoomCode(qn)
    IN IF m.found /\ _contains_any(qn, _ROOM_WORDS) THEN PyInt(StrToInt(m.group))
       ELSE IF m2.found /\ _contains_any(qn, _ROOM_WORDS) THEN PyInt(StrToInt(m2.group))
       ELSE PyNone

(***************************************************************************)
(* Decision Record and the stages of the router                            *)
(***************************************************************************)

\* router.Decision.  trace is kept as the fixed head of the source's trace
\* text, without the formatted arguments that follow it.
Decision(mode, name, args, sqlText, text, trace) ==
    [mode |-> mode, name |-> name, args |-> args, sql |-> sqlText, text |-> text, trace |-> trace]

\* a tool decision, as Decision("tool", name, args, trace=...) builds it
ToolDecision(name, items, trace) ==
    Decision("tool", PyStr(name), PyDict(items), PyNone, PyNone, trace)

\* `return None` of a stage
NoDecision == Decision("None", PyNone, PyNone, PyNone, PyNone, "")

\* router.py:211-213  the free-meeting-rooms predicate
IsFreeMeetingRooms(qn) ==
    /\ Contains(qn, "free") \/ Contains(qn, "vrij")
    /\ _contains_any(qn, {"meeting room", "meeting rooms", "vergaderruimte", "vergaderruimtes"})
    /\ _contains_any(qn, {"now", "currently", "nu"})

\* router.py:219  the utilization-by-floor predicate
IsUtilizationByFloor(qn) ==
    /\ Contains(qn, "utilization")
    /\ Contains(qn, "by floor") \/ Contains(qn, "per floor") \/ Contains(qn, "per verdieping")

\* router.py:225  re.search(r"\b(utilization|bezetting|benutting)\b.*\b(floor|level|storey|verdiep|etage)\b", qn)
IsUtilizationOfFloor(qn) ==
    \E kw \in {"utilization", "bezetting", "benutting"} : \E i \in 1..Len(qn) :
        /\ MatchAt(qn, i, kw) /\ Boundary(qn, i) /\ Boundary(qn, i + Len(kw))
        /\ \E fw \in {"floor", "level", "storey", "verdiep", "etage"} :
             \E j \in (i + Len(kw))..Len(qn) :
                /\ MatchAt(qn, j, fw) /\ Boundary(qn, j) /\ Boundary(qn, j + Len(fw))
                /\ \A k \in (i + Len(kw))..(j - 1) : Ch(qn, k) # "\n"

\* router.py:234  the busiest-rooms predicate
IsBusiestRooms(qn) == Contains(qn, "busiest") \/ Contains(qn, "top rooms") \/ Contains(qn, "drukste")

\* router.py:242  the underused-rooms predicate
IsUnderusedRooms(qn) ==
    \/ Contains(qn, "underused")
    \/ Contains(qn, "least") /\ Contains(qn, "used")
    \/ Contains(qn, "onderbenut")

\* router.py:251-252  the coffee-machine predicate
IsCoffeeMachine(qn) ==
    /\ _contains_any(qn, {"coffee", "pantry", "kitchen", "koffie", "keuken"})
    /\ _contains_any(qn, {"machine", "machines", "placement", "spots", "apparaat", "plaatsen"})

\* the optional "floor" item of the busiest and underused decisions
FloorItem(fl) == IF Truthy(fl) THEN {<<"floor", PyStr(fl[2])>>} ELSE {}

\* router.py:210-216
FreeMeetingRoomsDecision(qn) ==
    LET fl == _parse_floor(qn) IN
    IF IsFreeMeetingRooms(qn) /\ Truthy(fl)
    THEN ToolDecision("free_meeting_rooms_now", {<<"floor", PyStr(fl[2])>>},
                      "fast_intent: free_meeting_rooms_now")
    ELSE NoDecision

\* router.py:218-222
UtilizationByFloorDecision(qn) ==
    IF IsUtilizationByFloor(qn)
    THEN ToolDecision("utilization_by_floor",
                      {<<"days", OrElse(_parse_days_hours(qn)[1], PyInt(7))>>},
                      "fast_intent: utilization_by_floor")
    ELSE NoDecision

\* router.py:224-231
UtilizationFloorDecision(qn) ==
    LET fl == _parse_floor(qn) IN
    IF IsUtilizationOfFloor(qn) /\ Truthy(fl)
    THEN ToolDecision("utilization_floor",
                      {<<"floor", PyStr(fl[2])>>,
                       <<"days", OrElse(_parse_days_hours(qn)[1], PyInt(7))>>},
                      "fast_intent: utilization_floor")
    ELSE NoDecision

\* router.py:233-239
BusiestRoomsDecision(qn) ==
    IF IsBusiestRooms(qn)
    THEN ToolDecision("busiest_rooms",
                      {<<"days", OrElse(_parse_days_hours(qn)[1], PyInt(7))>>,
                       <<"limit", PyInt(5)>>} \cup FloorItem(_parse_floor(qn)),
                      "fast_intent: busiest_rooms")
    ELSE NoDecision

\* router.py:241-248
UnderusedRoomsDecision(qn) ==
    IF IsUnderusedRooms(qn)
    THEN ToolDecision("underused_rooms",
                      {<<"days", OrElse(_parse_days_hours(qn)[1], PyInt(30))>>,
                       <<"threshold", OrElse(_parse_threshold_percent(qn), PyFloat(10, 100))>>}
                          \cup FloorItem(_parse_floor(qn)),
                      "fast_intent: underused_rooms")
    ELSE NoDecision

\* router.py:250-266 (the test for "don't avoid quiet" with a typographic
\* apostrophe is not ASCII and is left out)
CoffeeMachineDecision(qn) ==
    LET fl == _parse_floor(qn)
        dh == _parse_days_hours(qn)
        avoid_quiet == ~(\/ Contains(qn, "ignore quiet") \/ Contains(qn, "dont avoid quiet")
                         \/ Contains(qn, "negeer rustig"))
    IN IF IsCoffeeMachine(qn)
       THEN ToolDecision("plan_coffee_machines",
                         {<<"floor", IF Truthy(fl) THEN PyStr(fl[2]) ELSE PyNone>>,
                          <<"k", OrElse(_parse_int(qn), PyInt(2))>>,
                          <<"hours", dh[2]>>,
                          <<"days", OrElse(dh[1], PyInt(14))>>,
                          <<"avoid_quiet", PyBool(avoid_quiet)>>,
                          <<"quiet_weight", PyFloat(6, 10)>>,
                          <<"downweight_refreshment", PyFloat(5, 10)>>},
                         "fast_intent: plan_coffee_machines")
       ELSE NoDecision

\* router.py:200-202
ListFloorsDecision(q_raw) ==
    IF _intent_list_floors(q_raw)
    THEN ToolDecision("list_floors", {}, "fast_intent: list_floors")
    ELSE NoDecision

\* router.py:204-208
RoomsOnFloorDecision(q_raw) ==
    LET fl == _intent_rooms_on_floor(q_raw) IN
    IF fl # PyNone
    THEN ToolDecision("rooms_on_floor", {<<"floor", PyStr(IntToStr(fl[2]))>>},
                      "fast_intent: rooms_on_floor")
    ELSE NoDecision

\* `d = matcher(...); if d: return d`, else the decision of the matchers after it
OrNext(d, rest) == IF d # NoDecision THEN d ELSE rest

\* a matcher that tries rooms-on-floor before list-floors
_fast_intent_RoomsFirst(q) ==
    LET qn == _normalize_text(q) IN
    OrNext(RoomsOnFloorDecision(q),
    OrNext(ListFloorsDecision(q),
    OrNext(FreeMeetingRoomsDecision(qn),
    OrNext(UtilizationByFloorDecision(qn),
    OrNext(UtilizationFloorDecision(qn),
    OrNext(BusiestRoomsDecision(qn),
    OrNext(UnderusedRoomsDecision(qn),
           CoffeeMachineDecision(qn))))))))

\* a matcher in which a later matcher that returns overrules an earlier one
_fast_intent_LastWins(q) ==
    LET qn == _normalize_text(q) IN
    OrNext(CoffeeMachineDecision(qn),
    OrNext(UnderusedRoomsDecision(qn),
    OrNext(BusiestRoomsDecision(qn),
    OrNext(UtilizationFloorDecision(qn),
    OrNext(UtilizationByFloorDecision(qn),
    OrNext(FreeMeetingRoomsDecision(qn),
    OrNext(RoomsOnFloorDecision(q),
           ListFloorsDecision(q))))))))

\* router._fast_intent: the matchers in the order of the source, the first
\* one that returns wins
_fast_intent(q) ==
    LET qn == _normalize_text(q) IN
    OrNext(ListFloorsDecision(q),
    OrNext(RoomsOnFloorDecision(q),
    OrNext(FreeMeetingRoomsDecision(qn),
    OrNext(UtilizationByFloorDecision(qn),
    OrNext(UtilizationFloorDecision(qn),
    OrNext(BusiestRoomsDecision(qn),
    OrNext(UnderusedRoomsDecision(qn),
           CoffeeMachineDecision(qn))))))))

(***************************************************************************)
(* Templated SQL Matcher, Escalation Heuristic and the staged router       *)
(***************************************************************************)

\* an entry of the call log.  op is the stage consulted or the external call
\* made; a Safety Gate call carries its argument and its outcome, an
\* execution on the connection carries the statement.
Ev(op, arg, res) == [op |-> op, arg |-> arg, res |-> res, args |-> PyNone]

Call(op) == Ev(op, "", Ok(""))

\* how a function ends: it returns val or raises exc; log is what it called
Return(v, l) == [raised |-> FALSE, exc |-> "", val |-> v, log |-> l]

Raise(e, l) == [raised |-> TRUE, exc |-> e, val |-> NoDecision, log |-> l]

\* the element of a one-element set.  Only({f(x) : x \in {e}}) is f(e) with e
\* computed once, as Python computes a value it assigns to a local variable.
Only(S) == CHOOSE x \in S : TRUE

\* `d = stage(q); if d: return d`, else what follows; the calls add up
Then(out, rest) ==
    Only({IF o.raised \/ o.val # NoDecision THEN o
          ELSE Only({[r EXCEPT !.log = o.log \o r.log] : r \in {rest}}) : o \in {out}})

\* re's \s+ at position i: the position after the whitespace, 0 without a match
WsPlus(s, i) == IF i >= 1 /\ i <= Len(s) /\ Ch(s, i) \in Whitespace THEN SkipWs(s, i) ELSE 0

\* the rest of the pattern of _fast_sql from the second number at b on; g1 is
\* the first number
CompareSecond(ql, g1, b) ==
    LET e == SignedNumberEnd(ql, b) IN
    IF e = 0 THEN NoMatch ELSE Match(<<g1, SubSeq(ql, b, e - 1)>>)

\* ... from the end j of the joining word on: \s+([+-]?\d+)
CompareJoin(ql, g1, j) ==
    LET b == WsPlus(ql, j) IN IF b = 0 THEN NoMatch ELSE CompareSecond(ql, g1, b)

\* ... from the first number at b on: ([+-]?\d+)\s+(?:and|&)\s+([+-]?\d+)
CompareFirst(ql, b) ==
    LET e == SignedNumberEnd(ql, b)
        j == IF e = 0 THEN 0 ELSE WsPlus(ql, e)
    IN IF j = 0 THEN NoMatch
       ELSE IF MatchAt(ql, j, "and") THEN CompareJoin(ql, SubSeq(ql, b, e - 1), j + 3)
       ELSE IF MatchAt(ql, j, "&") THEN CompareJoin(ql, SubSeq(ql, b, e - 1), j + 1)
       ELSE NoMatch

\* the whole pattern of _fast_sql matched at position i
CompareFloorsAt(ql, i) ==
    LET f == WsPlus(ql, i + 7)
        a == IF MatchAt(ql, f + 5, "s") THEN f + 6 ELSE f + 5
        b == WsPlus(ql, a)
    IN IF MatchAt(ql, i, "compare") /\ f > 0 /\ MatchAt(ql, f, "floor") /\ b > 0
       THEN CompareFirst(ql, b)
       ELSE NoMatch

\* re.search(r"compare\s+floors?\s+([+-]?\d+)\s+(?:and|&)\s+([+-]?\d+)", ql):
\* <<group 1, group 2>> of the leftmost match
SearchCompareFloors(ql) ==
    LET hits == {i \in 1..Len(ql) : CompareFloorsAt(ql, i).found} IN
    IF hits = {} THEN NoMatch ELSE CompareFloorsAt(ql, Min(hits))

\* router.py:280-302  the text of the statement up to the window in days
FAST_SQL_HEAD ==
    "\n"
    \o "            WITH max_ts AS (SELECT MAX(event_timestamp) AS ts FROM events_all),\n"
    \o "            windowed AS (\n"
    \o "                SELECT s.floor_n AS floor,\n"
    \o "                       to_timestamp(e.event_timestamp/1000) AS ts,\n"
    \o "                       e.occupancy\n"
    \o "                FROM events_all e\n"
    \o "                JOIN spaces s ON e.space_id = s.uuid\n"
    \o "                WHERE to_timestamp(e.event_timestamp/1000) >=\n"
    \o "                     (SELECT to_timestamp(ts/1000) FROM max_ts) - INTERVAL '"

\* ... from the window to the two floors
FAST_SQL_MID ==
    "' DAY\n"
    \o "            ),\n"
    \o "            hourly AS (\n"
    \o "                SELECT floor,\n"
    \o "                       date_trunc('hour', ts) AS hour,\n"
    \o "                       MAX(CASE WHEN LOWER(occupancy)='occupied' THEN 1 ELSE 0 END) AS occ\n"
    \o "                FROM windowed\n"
    \o "                GROUP BY floor, hour\n"
    \o "            )\n"
    \o "            SELECT floor, ROUND(AVG(occ)*100,1) AS occ_rate_percent\n"
    \o "            FROM hourly\n"
    \o "            WHERE floor IN ("

\* ... and after the floors
FAST_SQL_TAIL ==
    ")\n"
    \o "            GROUP BY floor\n"
    \o "            ORDER BY floor\n"
    \o "        "

\* router.py:280-302  the f-string with its three fields filled in
FastSqlText(d, f1, f2) ==
    FAST_SQL_HEAD \o IntToStr(d) \o FAST_SQL_MID \o f1 \o ", " \o f2 \o FAST_SQL_TAIL

\* router._fast_sql: the template goes through the router's gate before it
\* is returned, and the gate's ValueError is not caught here
_fast_sql(q) ==
    LET ql == Lower(q)
        m == SearchCompareFloors(ql)
    IN IF ~m.found THEN Return(NoDecision, <<>>)
       ELSE LET days == _parse_days_hours(ql)[1]
                d == OrElse(days, PyInt(7))[2]
                text == FastSqlText(d, m.group[1], m.group[2])
            IN Only({IF safe.ok
                     THEN Return(Decision("sql", PyNone, PyNone, PyStr(safe.val), PyNone,
                                          "fast_sql: compare floors"),
                                 <<Ev("router_gate", text, safe)>>)
                     ELSE Raise(safe.err, <<Ev("router_gate", text, safe)>>)
                     : safe \in {RouterEnsureSafeSelect(text)}})

\* router.py:78  words of multi-step or open-ended questions
AGENT_WORDS == {"why", "how", "explain", "recommend", "suggest", "tradeoff"}

\* router.py:81  phrases of discovery or policy questions
AGENT_PHRASES == {"which rooms are", "what kind of", "describe", "policy", "rules",
                  "definition", "meaning"}

\* router.py:87  the length above which a question goes to the agent
AGENT_LENGTH == 180

\* re.search(r"compare\s+floors", ql)
SearchCompareFloorsHead(ql) ==
    \E i \in 1..Len(ql) : MatchAt(ql, i, "compare") /\ MatchAt(ql, WsPlus(ql, i + 7), "floors")

\* router._needs_agent with the length test `len(ql) >= 180`
_needs_agent_AtLeast(q) ==
    LET ql == Lower(q) IN
    \/ \E w \in AGENT_WORDS : Contains(ql, w)
    \/ \E w \in AGENT_PHRASES : Contains(ql, w)
    \/ Contains(ql, " and ") /\ ~SearchCompareFloorsHead(ql)
    \/ Len(ql) >= AGENT_LENGTH

\* router._needs_agent
_needs_agent(q) ==
    LET ql == Lower(q) IN
    \/ \E w \in AGENT_WORDS : Contains(ql, w)
    \/ \E w \in AGENT_PHRASES : Contains(ql, w)
    \/ Contains(ql, " and ") /\ ~SearchCompareFloorsHead(ql)
    \/ Len(ql) > AGENT_LENGTH

\* what the chat-completions client does when NLRouter.infer calls it: it
\* raises, or answers with a tool call (name, arguments) or with content
LlmRaises(e) == [kind |-> "raise", name |-> PyNone, arguments |-> PyNone,
                 content |-> PyNone, exc |-> e]

LlmToolCall(name, arguments) == [kind |-> "tool", name |-> name, arguments |-> arguments,
                                 content |-> PyNone, exc |-> ""]

LlmContent(content) == [kind |-> "content", name |-> PyNone, arguments |-> PyNone,
                        content |-> content, exc |-> ""]

\* the client before any call
NoLlm == [kind |-> "none", name |-> PyNone, arguments |-> PyNone, content |-> PyNone,
          exc |-> ""]

\* json.loads on the argument texts the modelled client sends: an object, an
\* object with a floor, the JSON null, and a text that is not JSON
json_loads(text) ==
    CASE text = "{}" -> Ok(PyDict({}))
      [] text = "{\"floor\": \"3\"}" -> Ok(PyDict({<<"floor", PyStr("3")>>}))
      [] text = "null" -> Ok(PyNone)
      [] OTHER -> Err("Expecting value")

\* router.py:364-370  the arguments of the tool call
ToolCallArgs(arguments) ==
    LET args_str == OrElse(arguments, PyStr("{}"))[2] IN
    IF Strip(args_str) = "" THEN PyDict({})
    ELSE IF json_loads(args_str).ok THEN json_loads(args_str).val
    ELSE PyDict({})

\* A TLA+ string literal cannot hold the backquote character, so every text
\* of the model writes "~" where the Python text has a backquote; no function
\* of the source treats either character specially apart from the fence.
Backquote == "~"

\* the code fence, three backquotes
Fence == Backquote \o Backquote \o Backquote

\* re.search(r"<fence>sql\s*(.+?)<fence>", content, DOTALL | IGNORECASE): group
\* 1 of the leftmost match.  \s* is greedy and gives back one character when
\* the closing fence follows it at once.
SearchSqlFence(content) ==
    LET low == Lower(content)
        bodyAt(i) == SkipWs(content, i + 6)
        closings(i) == {e \in (bodyAt(i) + 1)..Len(content) : MatchAt(content, e, Fence)}
        givesBack(i) == bodyAt(i) > i + 6 /\ MatchAt(content, bodyAt(i), Fence)
        hits == {i \in 1..Len(content) :
                    MatchAt(low, i, Fence \o "sql") /\ (closings(i) # {} \/ givesBack(i))}
    IN IF hits = {} THEN NoMatch
       ELSE LET i == Min(hits) IN
            IF closings(i) # {} THEN Match(SubSeq(content, bodyAt(i), Min(closings(i)) - 1))
            ELSE Match(Ch(content, bodyAt(i) - 1))

\* re.search(r"(select\s.+)$", content, DOTALL | IGNORECASE): from the leftmost
\* "select" that whitespace and one more character follow, to the end
SearchSelectTail(content) ==
    LET low == Lower(content)
        hits == {i \in 1..Len(content) :
                    /\ MatchAt(low, i, "select")
                    /\ i + 7 <= Len(content)
                    /\ Ch(content, i + 6) \in Whitespace}
    IN IF hits = {} THEN NoMatch ELSE Match(From(content, Min(hits)))

\* router.py:333-339  the refusal when the model-assisted stage is disabled.
\* (The source writes "can't" with a typographic apostrophe.)
RoutingDisabledDecision ==
    Decision("text", PyNone, PyNone, PyNone,
             PyStr("I can't answer that from your provided data and tools."),
             "llm_routing disabled")

\* router.py:382-388  the refusal of the model-assisted stage in strict mode
StrictRefusalDecision ==
    Decision("text", PyNone, PyNone, PyNone,
             PyStr("I can't answer that from your provided data. "
                   \o "Try specifying a floor/room/time window or ask for a metric."),
             "llm: no tool/SQL; strict refusal")

\* router.py:393-395  `except Exception as e`
RouterErrorDecision(e) ==
    Decision("text", PyNone, PyNone, PyNone, PyStr("Router error: " \o e), "exception")

\* router.py:374-379 without the gate: the extracted text returned as it is
LlmSqlDecisionUngated(text) ==
    Return(Decision("sql", PyNone, PyNone, PyStr(text), PyNone, "llm: sql_fallback"), <<>>)

\* router.py:374-379  the extracted text goes through the router's gate; its
\* ValueError is caught by the handler of the model-assisted stage
LlmSqlDecision(text) ==
    Only({IF safe.ok
          THEN Return(Decision("sql", PyNone, PyNone, PyStr(safe.val), PyNone,
                               "llm: sql_fallback"), <<Ev("router_gate", text, safe)>>)
          ELSE Return(RouterErrorDecision(safe.err), <<Ev("router_gate", text, safe)>>)
          : safe \in {RouterEnsureSafeSelect(text)}})

\* router.py:346-391 without the handler of lines 393-395: the error of the
\* client leaves infer
LlmAnswerUncaught(r) ==
    IF r.kind = "raise" THEN Raise(r.exc, <<>>)
    ELSE IF r.kind = "tool"
    THEN Return(Decision("tool", r.name, ToolCallArgs(r.arguments), PyNone, PyNone,
                         "llm: tool_choice"), <<>>)
    ELSE Return(StrictRefusalDecision, <<>>)

\* router.py:357-395  the decision read off the client's answer r
LlmAnswer(r) ==
    IF r.kind = "raise" THEN Return(RouterErrorDecision(r.exc), <<>>)
    ELSE IF r.kind = "tool"
    THEN Return(Decision("tool", r.name, ToolCallArgs(r.arguments), PyNone, PyNone,
                         "llm: tool_choice"), <<>>)
    ELSE LET content == OrElse(r.content, PyStr(""))[2]
             fence == SearchSqlFence(content)
             m == IF fence.found THEN fence ELSE SearchSelectTail(content)
         IN IF m.found THEN LlmSqlDecision(Strip(m.group))
            ELSE IF STRICT_MODE THEN Return(StrictRefusalDecision, <<>>)
            ELSE Return(Decision("text", PyNone, PyNone, PyNone,
                                 OrElse(PyStr(content), PyStr("I'm not sure.")),
                                 "llm: plain text"), <<>>)

\* router.py:341-395  Stage 4: the context is built, the client is called,
\* its answer is read
LlmStage(q, r) ==
    Then(Return(NoDecision, <<Call("dynamic_context"), Call("llm")>>), LlmAnswer(r))

\* router.py:330-339  Stage 3 and the routing flag: the agent decision, the
\* refusal when the model-assisted stage is disabled, or no decision
EscalateOrRefuse(q) ==
    IF _needs_agent(q)
    THEN Return(Decision("agent", PyNone, PyNone, PyNone, PyNone, "heuristic: needs_agent"),
                <<Call("needs_agent")>>)
    ELSE IF ~LLM_ROUTING THEN Return(RoutingDisabledDecision, <<Call("needs_agent")>>)
    ELSE Return(NoDecision, <<Call("needs_agent")>>)

\* router.py:318-322  Stage 1 behind its flag
Stage1(q) == IF FAST_INTENTS THEN Return(_fast_intent(q), <<Call("fast_intent")>>)
             ELSE Return(NoDecision, <<>>)

\* router.py:324-328  Stage 2 behind its flag
Stage2(q) == IF FAST_SQL THEN Then(Return(NoDecision, <<Call("fast_sql")>>), _fast_sql(q))
             ELSE Return(NoDecision, <<>>)

\* router.py:316-339  NLRouter.infer up to the model-assisted stage: what the
\* stages that need no client decide
DeterministicStages(text) ==
    LET q == Strip(text) IN Then(Stage1(q), Then(Stage2(q), EscalateOrRefuse(q)))

\* router.py:316-395 with the client called before any other stage
inferLlmFirst(det, text, r) == Then(LlmStage(Strip(text), r), det)

\* NLRouter.infer(text) when the client answers r; det is what
\* DeterministicStages(text) decided
infer(det, text, r) == Then(det, LlmStage(Strip(text), r))

(***************************************************************************)
(* Tool dispatch and the execution paths of Chatbot.ask                    *)
(***************************************************************************)

\* `k in d`, d.get(k, default), d[k] = v and d.pop(k, None) for a dict d
Has(d, k) == \E it \in d[2] : it[1] = k

Get(d, k, default) == IF Has(d, k) THEN (CHOOSE it \in d[2] : it[1] = k)[2] ELSE default

Put(d, k, v) == PyDict({it \in d[2] : it[1] # k} \cup {<<k, v>>})

Pop(d, k) == PyDict({it \in d[2] : it[1] # k})

\* what a call of the backend does: it returns a table with rows or an empty
\* table, or it raises
DbOutcomes == {Ok("rows"), Ok("empty"), Err("Binder Error: column not found")}

\* the backend operation op of a tool, called with args, ending as res
Backend(op, args, res) == [op |-> "backend", arg |-> op, res |-> res, args |-> args]

\* con.execute(statement).df() ending as res
Execute(statement, res) == Ev("execute", statement, res)

\* the response of a handler: text, df ("None", "rows" or "empty"), title
\* (the evidence and route entries of Chatbot.ask's answer are left out)
Resp(text, df, title) == [text |-> text, df |-> df, title |-> title]

NoResp == Resp(PyNone, "None", PyNone)

\* a handler that raises
RaiseResp(e, l) == [raised |-> TRUE, exc |-> e, val |-> NoResp, log |-> l]

\* what a callee returned, after the calls l made before it
After(l, out) == Only({[o EXCEPT !.log = l \o o.log] : o \in {out}})

\* the tools that read args["floor"]
FLOOR_TOOLS == {"rooms_on_floor", "status_floor_now", "free_meeting_rooms_now",
                "utilization_floor"}

\* the tools that read their arguments with args.get
OPTION_TOOLS == {"busiest_rooms", "underused_rooms", "utilization_by_floor",
                 "plan_coffee_machines"}

\* chatbot.py:40-144  the names Chatbot._run_tool knows
CHATBOT_TOOLS == {"list_floors", "data_profile_summary", "data_overview"}
                     \cup FLOOR_TOOLS \cup OPTION_TOOLS

\* the fixed words of the text Chatbot._run_tool answers with (the formatted
\* floor, row count and window are left out)
ChatbotToolText(name) ==
    CASE name = "list_floors" -> "Floors detected."
      [] name = "rooms_on_floor" -> "rooms on"
      [] name = "status_floor_now" -> "rooms shown for"
      [] name = "free_meeting_rooms_now" -> "Free meeting rooms now on"
      [] name = "busiest_rooms" -> "Top busiest rooms"
      [] name = "underused_rooms" -> "Underused rooms"
      [] name = "utilization_floor" -> "Average utilization of floor"
      [] name = "utilization_by_floor" -> "Average utilization by floor"
      [] name = "plan_coffee_machines" -> "Optimized coffee-machine placement"
      [] name = "data_profile_summary" -> "### Data profile"
      [] OTHER -> "Overview of building usage"

\* the fixed words of the title Chatbot._run_tool answers with
ChatbotToolTitle(name) ==
    CASE name = "list_floors" -> "Floors"
      [] name = "rooms_on_floor" -> "Rooms on"
      [] name = "status_floor_now" -> "Status"
      [] name = "free_meeting_rooms_now" -> "Free rooms"
      [] name = "busiest_rooms" -> "Busiest rooms"
      [] name = "underused_rooms" -> "Underused rooms"
      [] name = "utilization_floor" -> "Utilization"
      [] name = "utilization_by_floor" -> "Utilization by floor"
      [] OTHER -> "Coffee machine plan"

\* str(name) in an f-string
FormatName(name) == IF name = PyNone THEN "None" ELSE name[2]

\* Chatbot._run_tool calling the backend once more when the table is empty
ChatbotBackendCallRetrying(name, args, res) ==
    IF res.ok THEN Return(Resp(PyStr(ChatbotToolText(name)), res.val,
                               PyStr(ChatbotToolTitle(name))),
                          IF res.val = "empty"
                          THEN <<Backend(name, args, res), Backend(name, args, res)>>
                          ELSE <<Backend(name, args, res)>>)
    ELSE RaiseResp(res.err, <<Backend(name, args, res)>>)

\* one backend call op(args) that ends as res, answered as Chatbot._run_tool does
ChatbotBackendCall(name, args, res) ==
    IF res.ok THEN Return(Resp(PyStr(ChatbotToolText(name)), res.val,
                               PyStr(ChatbotToolTitle(name))), <<Backend(name, args, res)>>)
    ELSE RaiseResp(res.err, <<Backend(name, args, res)>>)

\* chatbot.py:129-144  data_overview: utilization by floor over 7 and 30
\* days, merged; a backend error is not caught
ChatbotDataOverview(args, w) ==
    LET first7 == Backend("utilization_by_floor", PyDict({<<"days", PyInt(7)>>}), w.db1)
        second30 == Backend("utilization_by_floor", PyDict({<<"days", PyInt(30)>>}), w.db2)
    IN IF ~w.db1.ok THEN RaiseResp(w.db1.err, <<first7>>)
       ELSE IF ~w.db2.ok THEN RaiseResp(w.db2.err, <<first7, second30>>)
       ELSE Return(Resp(PyStr(ChatbotToolText("data_overview")),
                        IF "rows" \in {w.db1.val, w.db2.val} THEN "rows" ELSE "empty",
                        PyStr("Usage overview")), <<first7, second30>>)

\* chatbot.py:120-127  data_profile_summary: the profile, then the floors
ChatbotDataProfile(args, w) ==
    LET profile == Backend("build_profile", PyDict({}), w.db1)
        floors == Backend("list_floors", PyDict({}), w.db2)
    IN IF ~w.db1.ok THEN RaiseResp(w.db1.err, <<profile>>)
       ELSE IF ~w.db2.ok THEN RaiseResp(w.db2.err, <<profile, floors>>)
       ELSE Return(Resp(PyStr(ChatbotToolText("data_profile_summary")), w.db2.val,
                        PyStr("Building data profile")), <<profile, floors>>)

\* Chatbot._run_tool(name, args) in the world w
ChatbotRunTool(name, args, w) ==
    IF name = PyNone \/ name[2] \notin CHATBOT_TOOLS
    THEN Return(Resp(PyStr("Unknown tool: " \o FormatName(name)), "None", PyNone), <<>>)
    ELSE IF name[2] = "list_floors" THEN ChatbotBackendCall(name[2], PyDict({}), w.db1)
    ELSE IF name[2] = "data_profile_summary" THEN ChatbotDataProfile(args, w)
    ELSE IF name[2] = "data_overview" THEN ChatbotDataOverview(args, w)
    ELSE IF args = PyNone
    THEN RaiseResp(IF name[2] \in FLOOR_TOOLS
                   THEN "TypeError: 'NoneType' object is not subscriptable"
                   ELSE "AttributeError: 'NoneType' object has no attribute 'get'", <<>>)
    ELSE IF name[2] \in FLOOR_TOOLS /\ ~Has(args, "floor")
    THEN RaiseResp("KeyError: 'floor'", <<>>)
    ELSE ChatbotBackendCall(name[2], args, w.db1)

\* chatbot.py:168  the refusal of strict mode for an empty table
NoRowsResp == Resp(PyStr("No rows for that query in your data."), "None", PyNone)

\* the tool path with the test of the SQL path (chatbot.py:183): a null table
\* is refused as an empty one is
AskToolPathRefusingNull(d, w) ==
    Only({IF out.raised THEN out
          ELSE IF strict /\ out.val.df \in {"None", "empty"} THEN Return(NoRowsResp, out.log)
          ELSE out
          : out \in {ChatbotRunTool(d.name, d.args, w)}})

\* chatbot.py:165-171  the tool path
AskToolPath(d, w) ==
    Only({IF out.raised THEN out
          ELSE IF strict /\ out.val.df = "empty" THEN Return(NoRowsResp, out.log)
          ELSE out
          : out \in {ChatbotRunTool(d.name, d.args, w)}})

\* chatbot.py:174-194  the SQL path: the statement of the decision is executed
\* as it is; an error of the connection becomes the answer
AskSqlPath(d, w) ==
    LET executed == <<Execute(d.sql[2], w.db1)>> IN
    IF ~w.db1.ok THEN Return(Resp(PyStr("SQL error: " \o w.db1.err), "None", PyNone), executed)
    ELSE IF strict /\ w.db1.val = "empty" THEN Return(NoRowsResp, executed)
    ELSE Return(Resp(PyStr("Derived from SQL."), w.db1.val, PyStr("Query result")), executed)

\* chatbot.py:157-162 and 28-33  the agent path: the agent is built on first
\* use, unless its package is missing, and run; nothing is caught
AskAgentPath(w) ==
    IF w.agent = "missing"
    THEN RaiseResp("Agent not available (missing langchain packages / agent_lc.py).", <<>>)
    ELSE IF w.agent = "fails"
    THEN RaiseResp("agent error", <<Call("agent_build"), Call("agent_run")>>)
    ELSE Return(Resp(PyStr("agent answer"), "None", PyNone),
                <<Call("agent_build"), Call("agent_run")>>)

\* Chatbot.ask(question, strict=strict) once router.infer ended as routed, in
\* the world w.  (router.infer never returns mode "rag", so the rag path of
\* chatbot.py:197-208 is not taken.)
ask(routed, w) ==
    IF routed.raised THEN RaiseResp(routed.exc, routed.log)
    ELSE After(routed.log,
               IF routed.val.mode = "agent" THEN AskAgentPath(w)
               ELSE IF routed.val.mode = "tool" THEN AskToolPath(routed.val, w)
               ELSE IF routed.val.mode = "sql" THEN AskSqlPath(routed.val, w)
               ELSE Return(Resp(routed.val.text, "None", PyNone), <<>>))

(***************************************************************************)
(* planner.plan and the execution paths of AgentPro.run                    *)
(***************************************************************************)

\* llm_client.chat called by the planner or the advisor: what it returned or
\* the error it raised
Chat(who, res) == Ev("chat", who, res)

\* json.loads on the texts the modelled tool planner answers with
plan_json_loads(text) ==
    CASE text = "{\"tool\": \"list_floors\", \"args\": {}}" ->
             Ok(PyDict({<<"tool", PyStr("list_floors")>>, <<"args", PyDict({})>>}))
      [] text = "{\"tool\": \"plan_coffee_machines\", \"args\": {\"floor\": \" \", \"days\": 7}}" ->
             Ok(PyDict({<<"tool", PyStr("plan_coffee_machines")>>,
                        <<"args", PyDict({<<"floor", PyStr(" ")>>, <<"days", PyInt(7)>>})>>}))
      [] text = "{\"tool\": \"rooms_on_floor\"}" -> Ok(PyDict({<<"tool", PyStr("rooms_on_floor")>>}))
      [] text = "{\"tool\": \"plan_coffee_machines\", \"args\": {\"floor\": \"2\", \"hours\": 3}}" ->
             Ok(PyDict({<<"tool", PyStr("plan_coffee_machines")>>,
                        <<"args", PyDict({<<"floor", PyStr("2")>>, <<"hours", PyInt(3)>>})>>}))
      [] text = "{\"tool\": \"rooms_on_floor\", \"args\": {\"floor\": \"\"}}" ->
             Ok(PyDict({<<"tool", PyStr("rooms_on_floor")>>,
                        <<"args", PyDict({<<"floor", PyStr("")>>})>>}))
      [] text = "{\"tool\": \"busiest_rooms\", \"args\": {\"floor\": 2, \"limit\": 5}}" ->
             Ok(PyDict({<<"tool", PyStr("busiest_rooms")>>,
                        <<"args", PyDict({<<"floor", PyInt(2)>>, <<"limit", PyInt(5)>>})>>}))
      [] text = "{\"tool\": \"peak_hours\", \"args\": null}" ->
             Ok(PyDict({<<"tool", PyStr("peak_hours")>>, <<"args", PyNone>>}))
      [] text = "{\"mode\": \"sql\", \"sql\": \"select room from spaces\"}" ->
             Ok(PyDict({<<"mode", PyStr("sql")>>, <<"sql", PyStr("select room from spaces")>>}))
      [] text = "{\"mode\": \"sql\", \"sql\": \"select 1; drop table spaces\"}" ->
             Ok(PyDict({<<"mode", PyStr("sql")>>, <<"sql", PyStr("select 1; drop table spaces")>>}))
      [] text = "{\"mode\": \"sql\", \"sql\": \"drop table spaces\"}" ->
             Ok(PyDict({<<"mode", PyStr("sql")>>, <<"sql", PyStr("drop table spaces")>>}))
      [] text = "{\"final\": \"Floor 2 is the busiest.\"}" ->
             Ok(PyDict({<<"final", PyStr("Floor 2 is the busiest.")>>}))
      [] text = "{\"final\": \"\"}" -> Ok(PyDict({<<"final", PyStr("")>>}))
      [] text = "{}" -> Ok(PyDict({}))
      [] text = "null" -> Ok(PyNone)
      [] OTHER -> Err("Expecting value")

\* str.strip("<backquote>")
StripBackquotes(s) ==
    LET n == Len(s)
        lead == Cardinality({i \in 1..n : \A j \in 1..i : Ch(s, j) = Backquote})
        trail == Cardinality({i \in 1..n : \A j \in i..n : Ch(s, j) = Backquote})
    IN IF lead = n THEN "" ELSE SubSeq(s, lead + 1, n - trail)

\* `not sql.lower().startswith(("select", "with"))`
NotReadOnly(text) == ~(StartsWith(Lower(text), "select") \/ StartsWith(Lower(text), "with"))

\* planner.py:56-61  the SQL-only planner, calls when the first answer is not
\* JSON; chat2 is how its chat call ends
PlanSqlFallback(calls, chat2) ==
    IF ~chat2.ok THEN Raise(chat2.err, calls \o <<Chat("sql_planner", chat2)>>)
    ELSE LET text == StripBackquotes(Strip(Strip(chat2.val))) IN
         IF NotReadOnly(text)
         THEN Return(PyDict({<<"final", PyStr("I couldn't parse a tool/SQL plan. "
                                 \o "Please rephrase or ask for a specific metric.")>>}),
                     calls \o <<Chat("sql_planner", chat2)>>)
         ELSE Return(PyDict({<<"mode", PyStr("sql")>>, <<"sql", PyStr(text)>>}),
                     calls \o <<Chat("sql_planner", chat2)>>)

\* the tool decision with the hour added for the coffee planner whatever the
\* question says
PlanToolDecisionAlwaysNow(chosen, user_msg) ==
    LET name == Get(chosen, "tool", PyStr(""))
        given == OrElse(Get(chosen, "args", PyDict({})), PyDict({}))
        floor == Get(given, "floor", PyNone)
        blank == Has(given, "floor") /\ floor[1] = "str" /\ Strip(floor[2]) = ""
        args1 == IF blank THEN Put(given, "floor", PyNone) ELSE given
        args2 == IF name = PyStr("plan_coffee_machines") /\ ~Has(args1, "hours")
                 THEN Put(args1, "hours", PyInt(1)) ELSE args1
    IN PyDict({<<"tool", name>>, <<"args", args2>>})

\* planner.py:66-79  the tool decision, its arguments normalised
PlanToolDecision(chosen, user_msg) ==
    LET name == Get(chosen, "tool", PyStr(""))
        given == OrElse(Get(chosen, "args", PyDict({})), PyDict({}))
        floor == Get(given, "floor", PyNone)
        blank == Has(given, "floor") /\ floor[1] = "str" /\ Strip(floor[2]) = ""
        args1 == IF blank THEN Put(given, "floor", PyNone) ELSE given
        args2 == IF /\ name = PyStr("plan_coffee_machines")
                    /\ ~Has(args1, "hours")
                    /\ Contains(Lower(user_msg), "now")
                 THEN Put(args1, "hours", PyInt(1)) ELSE args1
    IN PyDict({<<"tool", name>>, <<"args", args2>>})

\* planner.py:82-86  SQL chosen by the tool planner
PlanSqlDecision(chosen) ==
    LET text == StripBackquotes(Strip(Get(chosen, "sql", PyStr(""))[2])) IN
    IF NotReadOnly(text) THEN PyDict({<<"final", PyStr("Planner proposed invalid SQL.")>>})
    ELSE PyDict({<<"mode", PyStr("sql")>>, <<"sql", PyStr(text)>>})

\* planner.plan(user_msg); chat1 and chat2 are how its two chat calls end
plan(user_msg, chat1, chat2) ==
    LET calls == <<Chat("tool_planner", chat1)>> IN
    IF ~chat1.ok THEN Raise(chat1.err, calls)
    ELSE LET parsed == plan_json_loads(Strip(chat1.val))
             chosen == parsed.val
         IN IF ~parsed.ok THEN PlanSqlFallback(calls, chat2)
            ELSE IF chosen = PyNone
            THEN Raise("TypeError: argument of type 'NoneType' is not iterable", calls)
            ELSE IF Has(chosen, "tool") THEN Return(PlanToolDecision(chosen, user_msg), calls)
            ELSE IF Get(chosen, "mode", PyNone) = PyStr("sql")
            THEN Return(PlanSqlDecision(chosen), calls)
            ELSE IF Has(chosen, "final")
            THEN Return(PyDict({<<"final", Get(chosen, "final", PyNone)>>}), calls)
            ELSE Return(PyDict({<<"final", PyStr("I couldn't choose a tool for that. Try asking "
                                   \o "for a metric (e.g., 'underused rooms last 30 days').")>>}),
                        calls)

\* agent.py:34-90  the names AgentPro._run_tool knows
AGENT_TOOLS == {"list_floors"} \cup FLOOR_TOOLS \cup OPTION_TOOLS

\* the arguments AgentPro._run_tool converts with int() or float() for a tool
ConvertedArgs(name) ==
    CASE name = "busiest_rooms" -> {"days", "limit"}
      [] name = "underused_rooms" -> {"days", "threshold"}
      [] name = "utilization_floor" -> {"days"}
      [] name = "utilization_by_floor" -> {"days"}
      [] name = "plan_coffee_machines" -> {"k", "days", "quiet_weight", "downweight_refreshment"}
      [] OTHER -> {}

\* whether int(v) or float(v) returns: a number, or a text made of digits
Converts(v) ==
    \/ v[1] \in {"int", "float", "bool"}
    \/ v[1] = "str" /\ v[2] # "" /\ \A i \in 1..Len(v[2]) : IsDigit(Ch(v[2], i))

\* the text and the title AgentPro._run_tool answers with
AgentToolText(name) ==
    CASE name = "list_floors" -> "Floors"
      [] name = "rooms_on_floor" -> "Rooms"
      [] name = "status_floor_now" -> "Status"
      [] name = "free_meeting_rooms_now" -> "Free"
      [] name = "busiest_rooms" -> "Busiest"
      [] name = "underused_rooms" -> "Underused"
      [] name = "utilization_floor" -> "Util"
      [] name = "utilization_by_floor" -> "Util-by-floor"
      [] OTHER -> "Optimized coffee-machine placement"

AgentToolTitle(name) ==
    CASE name = "list_floors" -> "Floors"
      [] name = "rooms_on_floor" -> "Rooms"
      [] name = "status_floor_now" -> "Status"
      [] name = "free_meeting_rooms_now" -> "Free rooms"
      [] name = "busiest_rooms" -> "Busiest"
      [] name = "underused_rooms" -> "Underused"
      [] name = "utilization_floor" -> "Util"
      [] name = "utilization_by_floor" -> "Util by floor"
      [] OTHER -> "Coffee machine plan"

\* AgentPro._run_tool without its last line: a name it does not know is
\* answered with the floors
AgentRunToolAnyName(name, args, res) ==
    IF res.ok THEN Return(Resp(PyStr("Floors"), res.val, PyStr("Floors")),
                          <<Backend("list_floors", PyDict({}), res)>>)
    ELSE RaiseResp(res.err, <<Backend("list_floors", PyDict({}), res)>>)

\* AgentPro._run_tool(name, args) when its backend call ends as res.  The
\* call is logged with the arguments _run_tool received.
AgentRunTool(name, args, res) ==
    IF name[1] # "str" \/ name[2] \notin AGENT_TOOLS
    THEN RaiseResp("Unknown tool " \o FormatName(name), <<>>)
    ELSE IF name[2] = "list_floors"
    THEN IF res.ok THEN Return(Resp(PyStr("Floors"), res.val, PyStr("Floors")),
                               <<Backend("list_floors", PyDict({}), res)>>)
         ELSE RaiseResp(res.err, <<Backend("list_floors", PyDict({}), res)>>)
    ELSE IF args = PyNone
    THEN RaiseResp(IF name[2] \in FLOOR_TOOLS
                   THEN "TypeError: 'NoneType' object is not subscriptable"
                   ELSE "AttributeError: 'NoneType' object has no attribute 'get'", <<>>)
    ELSE IF name[2] \in FLOOR_TOOLS /\ ~Has(args, "floor")
    THEN RaiseResp("KeyError: 'floor'", <<>>)
    ELSE IF \E k \in ConvertedArgs(name[2]) : Has(args, k) /\ ~Converts(Get(args, k, PyNone))
    THEN RaiseResp("TypeError: int() argument must be a string or a number", <<>>)
    ELSE IF res.ok THEN Return(Resp(PyStr(AgentToolText(name[2])), res.val,
                                    PyStr(AgentToolTitle(name[2]))),
                               <<Backend(name[2], args, res)>>)
    ELSE RaiseResp(res.err, <<Backend(name[2], args, res)>>)

\* max(int(args.get("days", 14)), 14)
RepairDays(args) ==
    LET v == Get(args, "days", PyInt(14))
        n == IF v[1] = "str" THEN StrToNat(v[2]) ELSE v[2]
    IN IF n > 14 THEN n ELSE 14

\* agent.py:131-134  the arguments of the retry
RepairArgs(args) ==
    Put(Put(Pop(args, "hours"), "days", PyInt(RepairDays(args))), "avoid_quiet", PyBool(FALSE))

\* agent.py:135  what the retry adds to the text
REPAIR_NOTE == " (auto-repaired: widened window, relaxed quiet)"

\* agent.py:126-136 and 155-161  the tool is run, and the coffee planner is
\* run once more when its table is empty
AgentRunToolRepairing(name, args, w) ==
    Only({IF once.raised \/ once.val.df # "empty" \/ name # PyStr("plan_coffee_machines")
          THEN once
          ELSE IF ~Converts(Get(args, "days", PyInt(14)))
          THEN RaiseResp("TypeError: int() argument must be a string or a number", once.log)
          ELSE Only({IF again.raised THEN again
                     ELSE Return([again.val EXCEPT !.text = PyStr(@[2] \o REPAIR_NOTE)],
                                 again.log)
                     : again \in {After(once.log, AgentRunTool(name, RepairArgs(args), w.db2))}})
          : once \in {AgentRunTool(name, args, w.db1)}})

\* re.search(r"\b(suggest|improve|optimi[sz]e|advise|advice|what should|ideas)\b",
\*           user_goal, re.I)
SUGGESTION_WORDS == {"suggest", "improve", "optimise", "optimize", "advise", "advice",
                     "what should", "ideas"}

\* agent.py:139-141 and 94-107  the advisor summarises the table: the KPIs
\* are read (an error there is swallowed), the advisor is asked
AgentSuggestions(ran, w) ==
    IF w.advisor.ok
    THEN Return(Resp(PyStr(w.advisor.val), ran.val.df, PyStr("Suggestions")),
                ran.log \o <<Call("kpis"), Chat("advisor", w.advisor)>>)
    ELSE RaiseResp(w.advisor.err, ran.log \o <<Call("kpis"), Chat("advisor", w.advisor)>>)

\* agent.py:122-143  the tool path of the planner's decision
RunPlannedTool(planned, user_goal, w) ==
    Only({IF ran.raised THEN ran
          ELSE IF SearchWholeWord(Lower(user_goal), SUGGESTION_WORDS)
          THEN AgentSuggestions(ran, w)
          ELSE ran
          : ran \in {AgentRunToolRepairing(Get(planned, "tool", PyNone),
                                           OrElse(Get(planned, "args", PyDict({})), PyDict({})),
                                           w)}})

\* agent.py:148-150 and 163-165  the statement goes through the gate of the
\* DB client and what the gate returns is executed; nothing is caught
RunSql(statement, w) ==
    Only({IF ~safe.ok THEN RaiseResp(safe.err, <<Ev("db_gate", statement, safe)>>)
          ELSE IF w.db1.ok
          THEN Return(Resp(PyStr("Answer derived from SQL."), w.db1.val, PyStr("Query result")),
                      <<Ev("db_gate", statement, safe), Execute(safe.val, w.db1)>>)
          ELSE RaiseResp(w.db1.err, <<Ev("db_gate", statement, safe), Execute(safe.val, w.db1)>>)
          : safe \in {DbEnsureSafeSelect(statement, HAS_SQLGLOT)}})

\* agent.py:152-168  the fallback: what router.infer decided is carried out
RunRouted(routed, w) ==
    IF routed.raised THEN RaiseResp(routed.exc, routed.log)
    ELSE After(routed.log,
               IF routed.val.mode = "tool"
               THEN AgentRunToolRepairing(routed.val.name, routed.val.args, w)
               ELSE IF routed.val.mode = "sql" THEN RunSql(routed.val.sql[2], w)
               ELSE Return(Resp(routed.val.text, "None", PyStr("Response")), <<>>))

\* whether AgentPro.run goes on to the router: the planner raised, or its
\* decision is neither a final text, nor a tool, nor SQL
FallsBack(planned) ==
    \/ planned.raised
    \/ /\ ~Truthy(Get(planned.val, "final", PyNone))
       /\ ~Has(planned.val, "tool")
       /\ ~(Get(planned.val, "mode", PyNone) = PyStr("sql")
               /\ Truthy(Get(planned.val, "sql", PyNone)))

\* AgentPro.run(user_goal) once plan ended as planned and, if the router is
\* asked, router.infer ended as routed, in the world w
run(planned, routed, user_goal, w) ==
    IF FallsBack(planned) THEN After(planned.log, RunRouted(routed, w))
    ELSE After(planned.log,
               IF Truthy(Get(planned.val, "final", PyNone))
               THEN Return(Resp(Get(planned.val, "final", PyNone), "None", PyStr("Response")),
                           <<>>)
               ELSE IF Has(planned.val, "tool") THEN RunPlannedTool(planned.val, user_goal, w)
               ELSE RunSql(Get(planned.val, "sql", PyNone)[2], w))

(***************************************************************************)
(* SpecGate: the two gates as functions of their input, applied once and   *)
(* then applied again to their own output                                  *)
(***************************************************************************)

\* how many body fragments follow the head of a generated statement
MaxBody == 2

\* how a generated statement begins: plain and upper-case SELECT, a WITH
\* prelude before a SELECT and before an INSERT, nothing, and a SELECT of a
\* text that holds a word only one of the two gates bans
GateHeads == {"select a", " SELECT a", "with x as (select 1 limit 1) select a",
              "with x as (select 1 limit 1)\ninsert\ninto t select 1", "",
              "select 'a call b'", "select 'to create x'"}

\* fragments a generated statement continues with: a banned word behind each
\* delimiter, inside an identifier and in upper case, a word only one of the
\* two gates bans, LIMIT clauses at the outer level and in a subquery,
\* a statement separator, a comment
GateFragments == {" drop", "\ndrop", "\tdrop,", "(drop)", " dropbox", " DELETE", " call",
                  " limit 5", "\nlimit 5", " from (select b limit 1) u", ";", " -- c"}

RECURSIVE Bodies(_)
Bodies(n) == IF n = 0 THEN {""} ELSE {""} \cup {b \o f : b \in Bodies(n - 1), f \in GateFragments}

SqlInputs == {h \o b : h \in GateHeads, b \in Bodies(MaxBody)}

NoResult == [ok |-> FALSE, val |-> "", err |-> "not called"]

\* the matcher's variables while another specification runs
IntentIdle == question = "" /\ asked = FALSE /\ decision = NoDecision

\* a handler that has not returned
NoReturn == [raised |-> FALSE, exc |-> "", val |-> NoDecision]

\* the router's variables while another specification runs: the flags at
\* their defaults (router.py:16-19), no handler called
TurnIdle ==
    /\ FAST_INTENTS = TRUE /\ FAST_SQL = TRUE /\ LLM_ROUTING = TRUE /\ STRICT_MODE = TRUE
    /\ user_text = "" /\ strict = TRUE
    /\ llm = NoLlm /\ handler = "none" /\ result = NoReturn /\ log = <<>>

\* router.py:310-313  the fields of a router as its constructor leaves them
NewRouter == [db |-> "db", client |-> "client", model |-> "DEFAULT_MODEL"]

\* the session's variables while another specification runs: a new router
SessionIdle == router = NewRouter /\ history = PyNone /\ fresh = NoReturn /\ turn = 0

\* the agent's variables while another specification runs: no call, no agent
AgentIdle == _agent = PyNone /\ askpc = <<>> /\ built = 0 /\ used = <<>>

\* the connection's variables while another specification runs: no table read
DataIdle == events = {} /\ rows = <<>>

\* the gate's variables while another specification runs
GateIdle ==
    /\ sql = "" /\ gate = "none" /\ passes = 0 /\ first = NoResult /\ second = NoResult
    /\ HAS_SQLGLOT = TRUE

Gate(g, s, hasSqlglot) == IF g = "router" THEN RouterEnsureSafeSelect(s)
                          ELSE DbEnsureSafeSelect(s, hasSqlglot)

InitGate ==
    /\ sql \in SqlInputs
    /\ \E c \in {<<"router", TRUE>>, <<"db", TRUE>>, <<"db", FALSE>>} :
          gate = c[1] /\ HAS_SQLGLOT = c[2]
    /\ passes = 0
    /\ first = NoResult
    /\ second = NoResult
    /\ IntentIdle
    /\ TurnIdle
    /\ DataIdle
    /\ SessionIdle
    /\ AgentIdle

\* the first call of the gate on the input
GateFirst ==
    /\ passes = 0
    /\ first' = Gate(gate, sql, HAS_SQLGLOT)
    /\ passes' = 1
    /\ UNCHANGED <<sql, gate, second, HAS_SQLGLOT, intentVars, turnVars, dataVars, sessionVars, agentVars>>

\* the gate called on the string its first call returned
GateSecond ==
    /\ passes = 1
    /\ first.ok
    /\ second' = Gate(gate, first.val, HAS_SQLGLOT)
    /\ passes' = 2
    /\ UNCHANGED <<sql, gate, first, HAS_SQLGLOT, intentVars, turnVars, dataVars, sessionVars, agentVars>>

\* agent.py:163  AgentPro.run validates the statement of the router's
\* decision, which the router's gate returned, with the gate of the DB client
GateRevalidate ==
    /\ passes = 1
    /\ gate = "router"
    /\ first.ok
    /\ second' = DbEnsureSafeSelect(first.val, HAS_SQLGLOT)
    /\ passes' = 2
    /\ handler' = "run"
    /\ UNCHANGED <<sql, gate, first, HAS_SQLGLOT, intentVars, flagVars, user_text, strict, llm,
                   result, log, dataVars, sessionVars, agentVars>>

NextGate == GateFirst \/ GateSecond \/ GateRevalidate

SpecGate == InitGate /\ [][NextGate]_vars

(***************************************************************************)
(* SpecIntent: _fast_intent as a function of the question                  *)
(***************************************************************************)

\* the floors a generated question names are 2..MaxFloor
MaxFloor == 4

\* the thresholds a generated question names are 0%, 15%, .. 15*MaxThresholdStep %
MaxThresholdStep == 1

\* the windows a generated question names are "last 1 days" .. "last MaxDays days"
MaxDays == 2

\* how a generated question begins: nothing, a list verb (also capitalised,
\* with doubled spaces), an adjective that contains the list verb "all", a count
QuestionLeads == {"", "list ", " Show  ", "small ", "best 2 "}

\* what a generated question asks about
QuestionSubjects == {"floors", "levels", "rooms", "room 3.142", "underused rooms",
                     "underused spaces", "busiest rooms", "free meeting rooms now",
                     "utilization", "coffee machine spots"}

\* where: no floor, an explicit floor, a negative level, all floors
QuestionFloors == {"", " by floor", " on level -1"}
                      \cup {" on floor " \o IntToStr(n) : n \in 2..MaxFloor}

\* when
QuestionWindows == {"", " last week", " past 2 months"}
                       \cup {" last " \o IntToStr(n) \o " days" : n \in 1..MaxDays}

\* below which occupancy
QuestionThresholds == {"", " under 5"}
                          \cup {" below " \o IntToStr(15 * k) \o "%" : k \in 0..MaxThresholdStep}

\* questions that meet the keywords of more than one matcher
MixedQuestions ==
    {"busiest and underused rooms", "underused coffee machine spots",
     "utilization per floor of floor 2", "busiest rooms and utilization by floor",
     "free meeting rooms now on floor 2 with utilization by floor",
     "free meeting rooms now near the coffee machine",
     "utilization of the floor with the busiest rooms"}

\* questions that name their window in the other ways the source reads
WindowQuestions ==
    {"busiest rooms past 3 weeks", "underused rooms last month",
     "busiest rooms past week", "utilization by floor currently",
     "coffee machine spots last 2weeks", "busiest rooms now last 3 days",
     "busiest rooms at this moment", "busiest rooms nowadays",
     "busiest rooms last month or past 2 weeks", "busiest rooms last 0 days",
     "underused rooms in the last 3 months"}

\* questions that name a room by its code, as prompts.py writes the codes
\* ('3.201' or '9.T32')
RoomCodeQuestions ==
    {"room 9.T32", "where is room 9.T32", "rooms next to 3.201", "room 3.14",
     "which room is 0.12", "room 2.A1 past week"}

\* questions that say how many coffee machines to place
CoffeeQuestions ==
    {"3 coffee machines on floor 2", "place 4 coffee machines last 3 days",
     "best 3 coffee machine spots", "coffee machine spots on floor 3 for 4 machines",
     "where to put 5 coffee machines"}

Questions == {l \o s \o f \o w \o th : l \in QuestionLeads, s \in QuestionSubjects,
                                      f \in QuestionFloors, w \in QuestionWindows,
                                      th \in QuestionThresholds}
                 \cup MixedQuestions \cup WindowQuestions \cup RoomCodeQuestions
                 \cup CoffeeQuestions

InitIntent ==
    /\ question \in Questions
    /\ asked = FALSE
    /\ decision = NoDecision
    /\ GateIdle
    /\ TurnIdle
    /\ DataIdle
    /\ SessionIdle
    /\ AgentIdle

\* router._fast_intent(question)
FastIntent ==
    /\ ~asked
    /\ decision' = _fast_intent(question)
    /\ asked' = TRUE
    /\ UNCHANGED <<question, gateVars, turnVars, dataVars, sessionVars, agentVars>>

NextIntent == FastIntent

SpecIntent == InitIntent /\ [][NextIntent]_vars

(***************************************************************************)
(* SpecRouter: NLRouter.infer under every setting of its flags             *)
(***************************************************************************)

\* a question longer than the 180 characters of the Escalation Heuristic
LongQuestion == JoinRange([i \in 1..31 |-> "hours "], 1, 31)

\* a question of exactly AGENT_LENGTH characters with no keyword
Question180 == JoinRange([i \in 1..29 |-> "hours "], 1, 29) \o "hourss"

\* questions for each stage: two the Pattern Intent Matcher resolves, the
\* comparisons of the Templated SQL Matcher (floors 2..MaxFloor, windows of
\* 1..MaxDays days), questions the Escalation Heuristic sends to the agent,
\* and questions no deterministic stage resolves
RouterQuestions ==
    {"list floors", " rooms on floor 3 ", "Compare floor -1 & 2",
     "explain the occupancy trend", "sensors and rooms of zone b", LongQuestion,
     "peak hours yesterday", "compare zones 2 and 3", "",
     "why is floor 2 always empty", "Describe zone b", Question180}
        \cup {"compare floors 2 and " \o IntToStr(n) : n \in 2..MaxFloor}
        \cup {"compare floors 3 and 2 last " \o IntToStr(n) \o " days" : n \in 1..MaxDays}

\* what the client may do: fail, call a tool (with an object, with a floor,
\* with broken JSON, with null, without the floor it needs, with nothing; a
\* tool that makes two backend calls), answer with no content, with
\* prose, with SQL in a fence or bare, with SQL the gate rejects
LlmResponses ==
    {LlmRaises("Connection error."),
     LlmToolCall(PyStr("list_floors"), PyStr("{}")),
     LlmToolCall(PyStr("rooms_on_floor"), PyStr("{\"floor\": \"3\"}")),
     LlmToolCall(PyStr("peak_hours_floor"), PyStr("{\"floor\": ")),
     LlmToolCall(PyStr("list_floors"), PyStr("null")),
     LlmToolCall(PyStr("rooms_on_floor"), PyStr("{}")),
     LlmToolCall(PyStr("data_overview"), PyStr("{}")),
     LlmToolCall(PyStr("data_profile_summary"), PyStr("{}")),
     LlmToolCall(PyNone, PyNone),
     LlmContent(PyNone),
     LlmContent(PyStr("Floor 2 is the busiest.")),
     LlmContent(PyStr(Fence \o "sql\nselect room from spaces\n" \o Fence)),
     LlmContent(PyStr("Try this: SELECT room FROM spaces limit 5")),
     LlmContent(PyStr(Fence \o "SQL\ndrop table spaces\n" \o Fence)),
     LlmContent(PyStr("select room from spaces; drop table spaces")),
     LlmContent(PyStr(Fence \o "sql " \o Fence))}

\* whether the call log l holds a call of op
Called(l, op) == \E i \in 1..Len(l) : l[i].op = op

InitRouter ==
    /\ FAST_INTENTS \in BOOLEAN /\ FAST_SQL \in BOOLEAN
    /\ LLM_ROUTING \in BOOLEAN /\ STRICT_MODE \in BOOLEAN
    /\ user_text \in RouterQuestions
    /\ strict = TRUE
    /\ llm = NoLlm /\ handler = "none" /\ result = NoReturn /\ log = <<>>
    /\ GateIdle
    /\ IntentIdle
    /\ DataIdle
    /\ SessionIdle
    /\ AgentIdle

\* NLRouter.infer(user_text); r is what the client does if it is called
Infer ==
    /\ handler = "none"
    /\ \E det \in {DeterministicStages(user_text)}, r \in LlmResponses :
       \E out \in {infer(det, user_text, r)} :
          /\ result' = [raised |-> out.raised, exc |-> out.exc, val |-> out.val]
          /\ log' = out.log
          /\ llm' = IF Called(out.log, "llm") THEN r ELSE NoLlm
    /\ handler' = "infer"
    /\ UNCHANGED <<flagVars, user_text, strict, gateVars, intentVars, dataVars, sessionVars, agentVars>>

NextRouter == Infer

SpecRouter == InitRouter /\ [][NextRouter]_vars

(***************************************************************************)
(* SpecTurn: one turn through Chatbot.ask or through AgentPro.run, with    *)
(* the flags at their defaults, in every modelled world                    *)
(***************************************************************************)

\* questions for each path: tools (one of them the coffee planner, one asking
\* for suggestions), the templated comparison of floor 2 with 3..MaxFloor,
\* the agent, the model-assisted stage
TurnQuestions ==
    {"list floors", "coffee machine spots on floor 2 now", "suggest rooms on floor 3",
     "explain the occupancy trend", "peak hours yesterday"}
        \cup {"compare floors 2 and " \o IntToStr(n) : n \in 3..MaxFloor}

\* how the chat call of the tool planner ends: an error, each answer
\* plan_json_loads reads, and prose
PlannerFirst ==
    {Err("Connection error."),
     Ok("{\"tool\": \"list_floors\", \"args\": {}}"),
     Ok("{\"tool\": \"plan_coffee_machines\", \"args\": {\"floor\": \" \", \"days\": 7}}"),
     Ok("{\"tool\": \"rooms_on_floor\"}"),
     Ok("{\"tool\": \"peak_hours\", \"args\": null}"),
     Ok("{\"mode\": \"sql\", \"sql\": \"select room from spaces\"}"),
     Ok("{\"mode\": \"sql\", \"sql\": \"select 1; drop table spaces\"}"),
     Ok("{\"mode\": \"sql\", \"sql\": \"drop table spaces\"}"),
     Ok("{\"final\": \"Floor 2 is the busiest.\"}"),
     Ok("{\"final\": \"\"}"),
     Ok("{}"),
     Ok(" null "),
     Ok("Use SQL for this.")}

\* how the chat call of the SQL-only planner ends
PlannerSecond ==
    {Err("Connection error."),
     Ok("select room from spaces limit 5"),
     Ok(Fence \o "WITH t AS (select room from spaces) select * from t" \o Fence),
     Ok("select room from spaces; delete from spaces"),
     Ok("Sorry, I cannot.")}

\* a chat call that is not made
NoChat == Ok("")

\* the worlds of a turn: how the first and the second call of the backend
\* end, whether the reasoning agent can be built and answers, how the call of
\* the advisor ends
Worlds == [db1 : DbOutcomes, db2 : DbOutcomes, agent : {"missing", "fails", "answers"},
           advisor : {Ok("Move one machine to zone B."), Err("Connection error.")}]

\* Chatbot.ask never asks the advisor, AgentPro.run never builds the agent
AskWorlds == {w \in Worlds : w.advisor.ok}

RunWorlds == {w \in Worlds : w.agent = "answers"}

\* whether the stages before the model-assisted one ended the routing
Resolved(det) == det.raised \/ det.val # NoDecision

InitTurn ==
    /\ user_text \in TurnQuestions
    /\ strict \in BOOLEAN
    /\ FAST_INTENTS = TRUE /\ FAST_SQL = TRUE /\ LLM_ROUTING = TRUE /\ STRICT_MODE = TRUE
    /\ llm = NoLlm /\ handler = "none" /\ result = NoReturn /\ log = <<>>
    /\ GateIdle
    /\ IntentIdle
    /\ DataIdle
    /\ SessionIdle
    /\ AgentIdle

\* the handler h ended as out; r is what the client did if it was called
Handled(h, out, r) ==
    /\ handler' = h
    /\ result' = [raised |-> out.raised, exc |-> out.exc, val |-> out.val]
    /\ log' = out.log
    /\ llm' = IF Called(out.log, "llm") THEN r ELSE NoLlm
    /\ UNCHANGED <<flagVars, user_text, strict, gateVars, intentVars, dataVars, sessionVars, agentVars>>

\* Chatbot.ask(user_text, strict=strict)
Ask ==
    /\ handler = "none"
    /\ \E det \in {DeterministicStages(user_text)} :
       \E r \in IF Resolved(det) THEN {NoLlm} ELSE LlmResponses :
       \E routed \in {infer(det, user_text, r)} :
       \E w \in AskWorlds :
       \E out \in {ask(routed, w)} : Handled("ask", out, r)

\* AgentPro.run(user_text)
Run ==
    /\ handler = "none"
    /\ \E det \in {DeterministicStages(user_text)} :
       \E chat1 \in PlannerFirst :
       \E chat2 \in IF chat1.ok /\ ~plan_json_loads(Strip(chat1.val)).ok
                    THEN PlannerSecond ELSE {NoChat} :
       \E planned \in {plan(user_text, chat1, chat2)} :
       \E r \in IF FallsBack(planned) /\ ~Resolved(det) THEN LlmResponses ELSE {NoLlm} :
       \E routed \in {IF FallsBack(planned) THEN infer(det, user_text, r) ELSE det} :
       \E w \in RunWorlds :
       \E out \in {run(planned, routed, user_text, w)} : Handled("run", out, r)

NextTurn == Ask \/ Run

SpecTurn == InitTurn /\ [][NextTurn]_vars

(***************************************************************************)
(* SpecPlan: planner.plan on its own, and AgentPro.run around it           *)
(***************************************************************************)

\* more answers of the tool planner: the coffee planner with its hours given,
\* a floor that is the empty string, arguments that need no normalising
PlannerMore ==
    {Ok("{\"tool\": \"plan_coffee_machines\", \"args\": {\"floor\": \"2\", \"hours\": 3}}"),
     Ok("{\"tool\": \"rooms_on_floor\", \"args\": {\"floor\": \"\"}}"),
     Ok("{\"tool\": \"busiest_rooms\", \"args\": {\"floor\": 2, \"limit\": 5}}")}

\* planner.plan(user_text): chat1 and chat2 are how its chat calls end
Plan ==
    /\ handler = "none"
    /\ \E chat1 \in PlannerFirst \cup PlannerMore :
       \E chat2 \in IF chat1.ok /\ ~plan_json_loads(Strip(chat1.val)).ok
                    THEN PlannerSecond ELSE {NoChat} :
       \E out \in {plan(user_text, chat1, chat2)} : Handled("plan", out, NoLlm)

NextPlan == Plan \/ Run

SpecPlan == InitTurn /\ [][NextPlan]_vars

(***************************************************************************)
(* SpecSession: one router serving one infer call after another            *)
(***************************************************************************)

\* how many calls a session makes
MaxTurns == 3

\* questions the Pattern Intent Matcher, the Templated SQL Matcher and the
\* Escalation Heuristic resolve, and one that goes to the client
SessionQuestions ==
    {"list floors", " rooms on floor 3 ", "compare floors 2 and 3",
     "explain the occupancy trend", "peak hours yesterday"}

\* what the client may do in a session
SessionLlm ==
    {LlmRaises("Connection error."),
     LlmToolCall(PyStr("list_floors"), PyStr("{}")),
     LlmContent(PyStr("Floor 2 is the busiest."))}

\* router.py:315  the history argument: absent, an empty list, or a list with
\* the question of the turn before and the trace of its decision
Histories(before, traced) == {PyNone, <<"list", <<>>>>, <<"list", <<before, traced>>>>}

\* the method with the trace of the history's last decision carried over
\* into the trace of the new one
NLRouter_inferWithHistory(self, text, hist, det, r) ==
    [out |-> Only({IF hist \in {PyNone, <<"list", <<>>>>} \/ o.raised THEN o
                   ELSE [o EXCEPT !.val.trace = hist[2][2] \o "; " \o o.val.trace]
                   : o \in {infer(det, text, r)}}),
     self |-> self]

\* router.py:315-395  NLRouter.infer(self, user_text, history) when the client
\* answers r and the stages that need no client decide det: the decision, and
\* the object after the call.  The body reads self.db, self.client and
\* self.model, assigns no field and never reads history.
NLRouter_infer(self, text, hist, det, r) ==
    [out |-> infer(det, text, r), self |-> self]

InitSession ==
    /\ FAST_INTENTS = TRUE /\ FAST_SQL \in BOOLEAN
    /\ LLM_ROUTING = TRUE /\ STRICT_MODE = TRUE
    /\ user_text = "" /\ strict = TRUE
    /\ llm = NoLlm /\ handler = "none" /\ result = NoReturn /\ log = <<>>
    /\ GateIdle
    /\ IntentIdle
    /\ DataIdle
    /\ SessionIdle
    /\ AgentIdle

\* what the call returned or raised
Returned(out) == [raised |-> out.raised, exc |-> out.exc, val |-> out.val]

\* the next call of the session: router.infer(q, history=h)
InferTurn ==
    /\ turn < MaxTurns
    /\ \E q \in SessionQuestions :
       \E h \in Histories(user_text, IF result.raised THEN "" ELSE result.val.trace) :
       \E det \in {DeterministicStages(q)} :
       \E r \in IF Resolved(det) THEN {NoLlm} ELSE SessionLlm :
       \E call \in {NLRouter_infer(router, q, h, det, r)} :
       \E anew \in {NLRouter_infer(NewRouter, q, PyNone, det, r)} :
          /\ user_text' = q
          /\ history' = h
          /\ result' = Returned(call.out)
          /\ log' = call.out.log
          /\ llm' = IF Called(call.out.log, "llm") THEN r ELSE NoLlm
          /\ router' = call.self
          /\ fresh' = Returned(anew.out)
    /\ turn' = turn + 1
    /\ handler' = "infer"
    /\ UNCHANGED <<flagVars, strict, gateVars, intentVars, dataVars, agentVars>>

NextSession == InferTurn

SpecSession == InitSession /\ [][NextSession]_vars

(***************************************************************************)
(* SpecCompare: a comparison of two floors routed by NLRouter.infer, and   *)
(* the statement of the decision executed on the connection as Chatbot.ask *)
(* executes it                                                             *)
(***************************************************************************)

\* the most sensor events a modelled data set holds
MaxEvents == 3

\* the floors that have sensors in the modelled building
SensorFloors == {2, 3}

\* the days, counted from the start of the recording, an event may fall on
EventDays == {0, 7, 9}

\* router.py:283-289  an event of events_all joined to its space: floor_n of
\* the space, the day of the event's timestamp, the occupancy text.  The
\* events of one floor on one day fall in the same hour.
SensorEvents == [floor_n : SensorFloors, day : EventDays, occupancy : {"occupied", "free"}]

\* the contents the tables may have when the statement is executed
DataSets == {es \in SUBSET SensorEvents : Cardinality(es) <= MaxEvents}

\* router.py:281  MAX(event_timestamp) over events_all, in days
max_ts(es) == Max({e.day : e \in es})

\* router.py:282-291  the events of the last d days before the newest event
windowed(es, d) == {e \in es : e.day >= max_ts(es) - d}

\* router.py:292-298  one row per floor and hour: occ is 1 when any event of
\* the hour reads "occupied"
hourly(es, d) ==
    {[floor |-> k[1], hour |-> k[2],
      occ |-> IF \E e \in windowed(es, d) :
                     e.floor_n = k[1] /\ e.day = k[2] /\ Lower(e.occupancy) = "occupied"
              THEN 1 ELSE 0]
     : k \in {<<e.floor_n, e.day>> : e \in windowed(es, d)}}

\* router.py:299  ROUND(AVG(occ)*100,1) over the hours hs of one floor, in
\* tenths of a percent (halves rounded away from zero)
occ_rate_percent(hs) ==
    LET n == Cardinality(hs)
        k == Cardinality({h \in hs : h.occ = 1})
    IN (2000 * k + n) \div (2 * n)

\* router.py:302  ORDER BY floor
RECURSIVE OrderByFloor(_)
OrderByFloor(fs) ==
    IF fs = {} THEN <<>> ELSE <<Min(fs)>> \o OrderByFloor(fs \ {Min(fs)})

\* the table without the WHERE clause of router.py:300: a row for every floor
CompareRowsAllFloors(d, f1, f2, es) ==
    LET hs == hourly(es, d)
        fs == OrderByFloor({h.floor : h \in hs})
    IN [i \in 1..Len(fs) |->
           [floor |-> fs[i],
            occ_rate_percent |-> occ_rate_percent({h \in hs : h.floor = fs[i]})]]

\* router.py:299-302  the table of the statement with the fields d, f1, f2 on
\* the data es: one row per floor of the IN list that has an hour in the
\* window.  (At most two rows, so the LIMIT of the wrapper cuts nothing.)
CompareRows(d, f1, f2, es) ==
    LET hs == hourly(es, d)
        fs == OrderByFloor({h.floor : h \in hs} \cap {f1, f2})
    IN [i \in 1..Len(fs) |->
           [floor |-> fs[i],
            occ_rate_percent |-> occ_rate_percent({h \in hs : h.floor = fs[i]})]]

\* the fields the template may have been filled with
TemplateFields ==
    {<<d, IntToStr(f1), IntToStr(f2)>> :
        d \in (0..MaxDays) \cup {7}, f1 \in 2..MaxFloor, f2 \in 2..MaxFloor}

\* the fields of text, if text is the template as the router's gate returns it
ReadTemplate(text) ==
    {c \in TemplateFields : text = RouterWrap(FastSqlText(c[1], c[2], c[3]))}

\* the window a question names: -1 stands for none
CompareWindows == {-1} \cup (0..MaxDays)

\* "compare floors X and Y [last N days]"
CompareQuestion(x, y, n) ==
    "compare floors " \o IntToStr(x) \o " and " \o IntToStr(y)
        \o (IF n < 0 THEN "" ELSE " last " \o IntToStr(n) \o " days")

CompareQuestions ==
    {CompareQuestion(x, y, n) : x \in 2..MaxFloor, y \in 2..MaxFloor, n \in CompareWindows}

InitCompare ==
    /\ FAST_INTENTS \in BOOLEAN /\ FAST_SQL \in BOOLEAN
    /\ LLM_ROUTING = TRUE /\ STRICT_MODE = TRUE
    /\ user_text \in CompareQuestions
    /\ strict = TRUE
    /\ llm = NoLlm /\ handler = "none" /\ result = NoReturn /\ log = <<>>
    /\ GateIdle
    /\ IntentIdle
    /\ DataIdle
    /\ SessionIdle
    /\ AgentIdle

\* chatbot.py:176  self.db.con.execute(decision["sql"]).df() on a decision
\* that carries the comparison, with the tables holding es
ExecuteDecision ==
    /\ handler = "infer"
    /\ ~result.raised
    /\ result.val.mode = "sql"
    /\ \E c \in ReadTemplate(result.val.sql[2]) :
       \E es \in DataSets :
          /\ events' = es
          /\ rows' = CompareRows(c[1], StrToInt(c[2]), StrToInt(c[3]), es)
          /\ log' = Append(log, Execute(result.val.sql[2],
                                        IF CompareRows(c[1], StrToInt(c[2]), StrToInt(c[3]), es) = <<>>
                                        THEN Ok("empty") ELSE Ok("rows")))
    /\ handler' = "execute"
    /\ UNCHANGED <<flagVars, user_text, strict, llm, result, gateVars, intentVars, sessionVars, agentVars>>

NextCompare == Infer \/ ExecuteDecision

SpecCompare == InitCompare /\ [][NextCompare]_vars

(***************************************************************************)
(* Claims about the Safety Gate (checked under SpecGate)                   *)
(***************************************************************************)

\* the input of the latest gate call and its outcome
GateCalls == IF passes = 0 THEN {}
             ELSE IF passes = 1 THEN {<<sql, first>>}
             ELSE {<<sql, first>>, <<first.val, second>>}

Rejected(r) == ~r.ok /\ r.val = "" /\ r.err # "not called"

\* C1: every input that contains a ';' anywhere is rejected by both gates
\* with a validation error and no string is returned.
C1_SemicolonRejected ==
    \A c \in GateCalls : Contains(c[1], ";") => Rejected(c[2])

\* C1 witness: a statement that only its trailing ';' makes unacceptable
C1_Witness ==
    /\ passes = 1
    /\ sql = "select a limit 5;"
    /\ first.err = "Multiple statements not allowed."
    /\ Gate(gate, "select a limit 5", HAS_SQLGLOT).ok

\* C2: every input whose lowercased, trimmed text starts with neither
\* `select` nor `with` is rejected with a validation error and no string.
C2_NonSelectRejected ==
    \A c \in GateCalls :
        LET low == Strip(Lower(c[1])) IN
        ~(StartsWith(low, "select") \/ StartsWith(low, "with")) => Rejected(c[2])

\* C2 witness: no separator and no word either gate bans, rejected for its
\* first word alone
C2_Witness ==
    /\ passes = 1
    /\ sql = " call limit 5"
    /\ first.err \in {"Only SELECT (or WITH ... SELECT) allowed.", "Only SELECT/WITH allowed."}

\* the banned words as the specification lists them
ClaimBanned == {"insert", "update", "delete", "replace into", "create table", "alter",
                "drop", "attach", "copy", "pragma", "call"}

\* what may delimit a standalone word, besides the start and the end of the text
WordDelims == {" ", "\n", "\t", "(", ")", ","}

StandaloneAt(low, i, kw) ==
    /\ MatchAt(low, i, kw)
    /\ (i = 1 \/ Ch(low, i - 1) \in WordDelims)
    /\ (i + Len(kw) > Len(low) \/ Ch(low, i + Len(kw)) \in WordDelims)

OccursStandalone(low, words) ==
    \E kw \in words : \E i \in 1..Len(low) : StandaloneAt(low, i, kw)

\* C3 (as claimed): an input in which a banned word stands alone, whatever
\* delimits it, is rejected; an input in which banned words occur only inside
\* longer identifiers is not rejected for its keywords.
C3_WholeWordMatching ==
    \A c \in GateCalls :
        LET low == Lower(c[1]) IN
        /\ OccursStandalone(low, ClaimBanned) => Rejected(c[2])
        /\ (/\ \E kw \in ClaimBanned : Contains(low, kw)
            /\ ~OccursStandalone(low, ClaimBanned \cup ROUTER_BANNED))
           => c[2].err # "Unsafe keyword detected."

\* C3's failing input is accepted, and returned as it is, by both gates
C3_FailingInputAccepted ==
    passes = 1 /\ sql = "with x as (select 1 limit 1)\ninsert\ninto t select 1"
        => first = Ok(sql)

\* the parenthesis depth of s just before position n
DepthBefore(s, n) ==
    Cardinality({i \in 1..(n - 1) : Ch(s, i) = "("}) - Cardinality({i \in 1..(n - 1) : Ch(s, i) = ")"})

\* the statement has a LIMIT clause of its own, outside every subquery
HasOutermostLimit(s) ==
    LET low == Lower(s) IN
    \E i \in 1..Len(low) : StandaloneAt(low, i, "limit") /\ DepthBefore(low, i) = 0

IsWrapped(out, s) == \E alias \in {"_t", "_safe"} :
    out = "SELECT * FROM (" \o s \o ") AS " \o alias \o " LIMIT 500"

\* C5 (as claimed): an accepted input without an outermost LIMIT is returned
\* wrapped as a subquery under LIMIT 500, one with an outermost LIMIT unchanged.
C5_RowCap ==
    passes >= 1 /\ first.ok =>
        IF HasOutermostLimit(sql) THEN first.val = sql ELSE IsWrapped(first.val, sql)

\* C5's failing input comes back without any outer LIMIT
C5_FailingInputUncapped ==
    passes = 1 /\ sql = "select a from (select b limit 1) u" => first = Ok(sql)

\* C6 (as claimed): the gate accepts its own output and returns it unchanged.
C6_Idempotent ==
    /\ passes = 2 => second = first
    /\ passes = 1 /\ first.ok => Gate(gate, first.val, HAS_SQLGLOT) = first

\* C6's failing input: accepted and wrapped, and the wrapped text rejected
C6_FailingInputRejectedAgain ==
    passes = 2 /\ sql = "select a -- c" /\ gate = "router"
        => /\ first = Ok("SELECT * FROM (select a -- c) AS _t LIMIT 500")
           /\ second = Err("SQL parse error")

(***************************************************************************)
(* Claims about the Pattern Intent Matcher (checked under SpecIntent)      *)
(***************************************************************************)

\* the decision names the tool and carries exactly these arguments
IsToolCall(d, name, items) ==
    d.mode = "tool" /\ d.name = PyStr(name) /\ d.args = PyDict(items)

\* the floors and thresholds a generated question can name
NamedFloors == 2..MaxFloor

NamedPercents == {15 * k : k \in 0..MaxThresholdStep}

\* C8 (as claimed): a question recognised as an underused-rooms question that
\* names floor N and "below P%" gets underused_rooms with threshold P/100 and
\* floor "N".
C8_UnderusedOnFloor ==
    asked =>
        LET qn == _normalize_text(question) IN
        \A n \in NamedFloors : \A pc \in NamedPercents :
            (/\ IsUnderusedRooms(qn)
             /\ Contains(qn, "floor " \o IntToStr(n))
             /\ Contains(qn, "below " \o IntToStr(pc) \o "%"))
            => /\ decision.mode = "tool"
               /\ decision.name = PyStr("underused_rooms")
               /\ <<"threshold", PyFloat(pc, 100)>> \in decision.args[2]
               /\ <<"floor", PyStr(IntToStr(n))>> \in decision.args[2]

\* C8's failing input, the example of the specification, is taken by the
\* rooms-on-floor matcher
C8_FailingInputRoomsOnFloor ==
    asked /\ question = "underused rooms on floor 4 below 15%"
        => IsToolCall(decision, "rooms_on_floor", {<<"floor", PyStr("4")>>})

\* C9 (as claimed): every question with a room word and an explicit floor
\* keyword followed by N gets rooms_on_floor with args exactly {floor: "N"}.
C9_RoomsOnFloor ==
    asked =>
        LET qn == _normalize_text(question) IN
        \A n \in NamedFloors :
            _contains_any(qn, _ROOM_WORDS) /\ Contains(qn, "floor " \o IntToStr(n))
            => IsToolCall(decision, "rooms_on_floor", {<<"floor", PyStr(IntToStr(n))>>})

\* C9's failing input is taken by the list-floors matcher
C9_FailingInputListFloors ==
    asked /\ question = "list rooms on floor 3" => IsToolCall(decision, "list_floors", {})

\* C10: "list floors", and every question whose normalized text is one of the
\* short floor asks or holds both a list verb and a floor word, gets the tool
\* decision list_floors with an empty argument mapping.
C10_ListFloors ==
    asked =>
        LET qn == _normalize_text(question) IN
        (\/ qn \in SHORT_FLOOR_ASKS
         \/ (\E v \in _LIST_VERBS : Contains(qn, v)) /\ (\E w \in _FLOOR_WORDS : Contains(qn, w)))
        => IsToolCall(decision, "list_floors", {})

\* C10 witness: the question of the specification, answered
C10_Witness ==
    asked /\ question = "list floors" /\ IsToolCall(decision, "list_floors", {})

(***************************************************************************)
(* Claims about the staged router (checked under SpecRouter)               *)
(***************************************************************************)

\* the position of a stage in the order of the specification; calls that are
\* not the consultation of a stage have no position
StageRank(op) == CASE op = "fast_intent" -> 1
                   [] op = "fast_sql" -> 2
                   [] op = "needs_agent" -> 3
                   [] op = "llm" -> 4
                   [] OTHER -> 0

\* the stages of the log l, in the order they were consulted
StagesConsulted(l) == SelectSeq(l, LAMBDA e : StageRank(e.op) > 0)

\* how often the log l holds a call of op
Calls(l, op) == Cardinality({i \in 1..Len(l) : l[i].op = op})

\* the first three stages, each asked on its own: whether it declines the
\* question q (a stage switched off by its flag declines)
Declines1(q) == FAST_INTENTS => _fast_intent(q) = NoDecision

Declines2(q) == FAST_SQL => (LET out == _fast_sql(q) IN ~out.raised /\ out.val = NoDecision)

Declines3(q) == ~_needs_agent(q)

\* C7: NLRouter.infer consults Pattern Intent Matcher, Templated SQL Matcher,
\* Escalation Heuristic and the model-assisted stage in this order and returns
\* the decision of the first stage that resolves the question; the client is
\* called (once) only when the first three stages declined and LLM routing is
\* enabled; with LLM routing disabled the answer is a mode=text refusal and
\* the client is not called.
C7_StageOrder ==
    handler = "infer" =>
        \A q \in {Strip(user_text)} :
        \A d1 \in {Declines1(q)}, d2 \in {Declines2(q)}, d3 \in {Declines3(q)} :
        LET stages == StagesConsulted(log)
            last == stages[Len(stages)].op
        IN /\ \A i \in 1..(Len(stages) - 1) : StageRank(stages[i].op) < StageRank(stages[i + 1].op)
           /\ ~result.raised /\ result.val # NoDecision
           /\ ~d1 => result.val = _fast_intent(q) /\ last = "fast_intent"
           /\ d1 /\ ~d2 => result.val = _fast_sql(q).val /\ last = "fast_sql"
           /\ d1 /\ d2 /\ ~d3 => result.val.mode = "agent" /\ last = "needs_agent"
           /\ d1 /\ d2 /\ d3 /\ ~LLM_ROUTING =>
                 result.val.mode = "text" /\ last = "needs_agent"
           /\ Called(log, "llm") <=> d1 /\ d2 /\ d3 /\ LLM_ROUTING
           /\ Calls(log, "llm") <= 1
           /\ Called(log, "llm") => last = "llm" /\ result.val.trace # "llm_routing disabled"

\* the client is called after all three stages declined, and its tool call
\* becomes the decision
C7_Witness ==
    /\ handler = "infer" /\ user_text = "peak hours yesterday"
    /\ FAST_INTENTS /\ FAST_SQL /\ LLM_ROUTING
    /\ [i \in 1..Len(log) |-> log[i].op]
           = <<"fast_intent", "fast_sql", "needs_agent", "dynamic_context", "llm">>
    /\ llm = LlmToolCall(PyStr("list_floors"), PyStr("{}"))
    /\ result.val.mode = "tool" /\ result.val.name = PyStr("list_floors")


(***************************************************************************)
(* Claims about the execution paths (checked under SpecTurn)               *)
(***************************************************************************)

\* the two Safety Gates as they appear in the call log
GATE_CALLS == {"router_gate", "db_gate"}

\* the positions of the log l where a statement reaches the connection
Executions(l) == {i \in 1..Len(l) : l[i].op = "execute"}

\* the positions of the log l where a gate rejected its input
Rejections(l) == {j \in 1..Len(l) : l[j].op \in GATE_CALLS /\ ~l[j].res.ok}

\* C4: on the SQL path of Chatbot.ask and on the planner-SQL and the
\* router-fallback path of AgentPro.run, a statement reaches the database
\* connection only after a Safety Gate call accepted it: what is executed is
\* what an earlier gate call of the same turn returned, and a turn in which a
\* gate rejected its input executes nothing, and these paths execute at most
\* one statement per turn.
C4_ExecutedOnlyAfterGate ==
    handler \in {"ask", "run"} =>
        /\ \A i \in Executions(log) :
              \E j \in 1..(i - 1) : /\ log[j].op \in GATE_CALLS
                                    /\ log[j].res.ok
                                    /\ log[j].res.val = log[i].arg
        /\ Rejections(log) # {} => Executions(log) = {}
        /\ Cardinality(Executions(log)) <= 1

\* Chatbot.ask executes the statement the router's gate returned for the SQL
\* the client wrote
C4_Witness ==
    /\ handler = "ask" /\ llm.kind = "content"
    /\ \E i \in Executions(log) :
          /\ i > 1
          /\ log[i - 1].op = "router_gate" /\ log[i - 1].res.ok
          /\ log[i - 1].res.val = log[i].arg
          /\ Contains(llm.content[2], log[i - 1].arg)


(***************************************************************************)
(* Claims about the Tool Dispatcher (checked under SpecTurn)               *)
(***************************************************************************)

COFFEE_TOOL == "plan_coffee_machines"

\* the positions of the log l where the backend operation of a tool is called
BackendCalls(l) == {i \in 1..Len(l) : l[i].op = "backend"}

\* the positions of the log l where the coffee-machine planner is executed
CoffeeCalls(l) == {i \in BackendCalls(l) : l[i].arg = COFFEE_TOOL}

\* the backend call at position i of the log l returned an empty table
ReturnedEmpty(l, i) == l[i].res.ok /\ l[i].res.val = "empty"

\* the number an argument stands for (a number or a text of digits)
ArgNumber(v) == IF v[1] = "str" THEN StrToNat(v[2]) ELSE v[2]

\* args2 is args1 relaxed: no hours, days widened to at least 14, quiet areas
\* no longer avoided, every other argument as it was
IsRelaxed(args1, args2) ==
    /\ ~Has(args2, "hours")
    /\ Get(args2, "days", PyNone) = PyInt(Max({ArgNumber(Get(args1, "days", PyInt(14))), 14}))
    /\ Get(args2, "avoid_quiet", PyNone) = PyBool(FALSE)
    /\ \A k \in {it[1] : it \in args1[2] \cup args2[2]} \ {"hours", "days", "avoid_quiet"} :
          /\ Has(args1, k) /\ Has(args2, k)
          /\ Get(args1, k, PyNone) = Get(args2, k, PyNone)

\* a turn executes the coffee planner, first returning an empty table, then
\* once more with relaxed arguments, and never a third time
RetriedOnce(l) ==
    \E i, j \in CoffeeCalls(l) :
        /\ i < j /\ CoffeeCalls(l) = {i, j}
        /\ IsRelaxed(l[i].args, l[j].args)

\* C11 (as claimed): whenever the first execution of the coffee-machine
\* planner by a dispatcher (Chatbot.ask's or AgentPro.run's) returns an empty
\* table, the tool is executed exactly once more, with hours removed, days
\* set to max(days, 14), avoid_quiet false and the other arguments unchanged.
C11_CoffeeRetriedOnce ==
    handler \in {"ask", "run"} =>
        \A i \in CoffeeCalls(log) :
            (\A j \in CoffeeCalls(log) : i <= j) /\ ReturnedEmpty(log, i) => RetriedOnce(log)

\* C11's failing input: Chatbot.ask executes the coffee planner once, whatever
\* it returns
C11_FailingInputAskRunsOnce ==
    handler = "ask" => Cardinality(CoffeeCalls(log)) <= 1

\* AgentPro.run does retry as claimed, on the planner's tool path and on the
\* router's
C11_RunRetriesOnce ==
    handler = "run" =>
        /\ Cardinality(CoffeeCalls(log)) <= 2
        /\ \A i \in CoffeeCalls(log) :
              (\A j \in CoffeeCalls(log) : i <= j) /\ ReturnedEmpty(log, i) => RetriedOnce(log)


\* the auto-repair retry was performed: the coffee planner was executed twice
Repaired(l) == Cardinality(CoffeeCalls(l)) = 2

\* the text of the answer carries the auto-repair annotation
Annotated(answer) == answer.text[1] = "str" /\ Contains(answer.text[2], "auto-repaired")

\* C12 (as claimed): whenever the auto-repair retry was performed during a
\* turn, the text of the result returned to the caller carries the
\* auto-repair annotation.
C12_RepairAnnotated ==
    handler \in {"ask", "run"} /\ ~result.raised /\ Repaired(log) => Annotated(result.val)

\* C12's failing input: the question asks for suggestions, so the answer's
\* text is the advisor's and the annotation is gone
C12_FailingInputSuggestions ==
    (/\ handler = "run" /\ ~result.raised /\ Repaired(log)
     /\ user_text = "suggest rooms on floor 3")
        => /\ Called(log, "chat") /\ log[Len(log)] = Chat("advisor", log[Len(log)].res)
           /\ result.val.text = PyStr(log[Len(log)].res.val)
           /\ result.val.title = PyStr("Suggestions")
           /\ ~Annotated(result.val)

\* without the advisor the returned text is annotated
C12_AnnotatedUnlessAdvised ==
    (/\ handler = "run" /\ ~result.raised /\ Repaired(log)
     /\ result.val.title # PyStr("Suggestions"))
        => Annotated(result.val)


\* the positions of the log l where the database is called by a dispatched
\* tool or by the execution of a statement
DbCalls(l) == BackendCalls(l) \cup Executions(l)

\* the positions of the log l where a language model is called: the router's
\* client, and llm_client.chat for the planners and the advisor
RouterLlmCalls(l) == {i \in 1..Len(l) : l[i].op = "llm"}

ChatCalls(l) == {i \in 1..Len(l) : l[i].op = "chat"}

\* the call at position i of the log l failed (a failure of the router's
\* client is kept in the variable llm)
Failed(l, i) == ~l[i].res.ok

\* the second backend call of the two tools that always make two calls: the
\* 30-day window of data_overview after its 7-day window, the list of floors
\* of data_profile_summary after its profile
SecondOfTwo(l, i, j) ==
    \/ /\ l[i].arg = "utilization_by_floor" /\ l[i].args = PyDict({<<"days", PyInt(7)>>})
       /\ l[j].arg = "utilization_by_floor" /\ l[j].args = PyDict({<<"days", PyInt(30)>>})
    \/ l[i].arg = "build_profile" /\ l[j].arg = "list_floors"

\* the answer for an empty table after the caller's strict-mode policy: the
\* refusal of Chatbot.ask in strict mode, else the empty table itself
EmptyHandedOn ==
    IF handler = "ask" /\ strict THEN result.val = NoRowsResp ELSE result.val.df = "empty"

ReturnedMessage == ~result.raised /\ result.val.text[1] = "str" /\ result.val.text[2] # ""

\* C14 (as claimed): Chatbot.ask never raises; whatever fails (a tool's
\* backend call, a missing argument, the execution of SQL, the reasoning
\* agent, the language model), it returns a response whose text is a message.
C14_AskNeverRaises == handler = "ask" => ReturnedMessage

\* C14's failing input: the backend call of list_floors fails and Chatbot.ask
\* raises the backend's error
C14_FailingInputBackendError ==
    (/\ handler = "ask" /\ user_text = "list floors"
     /\ \E i \in BackendCalls(log) : Failed(log, i))
        => result.raised /\ result.exc = log[Len(log)].res.err

\* the failures Chatbot.ask does turn into a message: of the execution of
\* SQL and of the router's client
C14_SqlAndLlmFailuresCaught ==
    (/\ handler = "ask"
     /\ \/ llm.kind = "raise"
        \/ \E i \in Executions(log) : Failed(log, i))
        => ReturnedMessage

\* what makes Chatbot.ask raise: a failed backend call, a tool that reads
\* args["floor"] and has no such argument or no arguments at all, the agent
C14_AskRaisesOnlyFrom ==
    handler = "ask" /\ result.raised =>
        \/ \E i \in BackendCalls(log) : Failed(log, i) /\ result.exc = log[i].res.err
        \/ result.exc \in {"KeyError: 'floor'",
                           "TypeError: 'NoneType' object is not subscriptable",
                           "AttributeError: 'NoneType' object has no attribute 'get'"}
        \/ /\ result.val = NoResp /\ ~Called(log, "llm") /\ DbCalls(log) = {}
           /\ result.exc \in {"agent error",
                              "Agent not available (missing langchain packages / agent_lc.py)."}


\* the model-assisted stage of NLRouter.infer raised inside: the client's
\* call did, or the router's gate rejected the SQL read off its answer
StageFailure(l) ==
    IF llm.kind = "raise" THEN {llm.exc}
    ELSE {l[i].res.err : i \in {j \in 1..Len(l) : l[j].op = "router_gate" /\ Failed(l, j)
                                                   /\ \E k \in RouterLlmCalls(l) : k < j}}

\* C15: if the client's call raises or the router's gate rejects the SQL the
\* client proposed, NLRouter.infer does not raise: it returns a mode=text
\* decision whose text is "Router error: " and the error, with no tool and no
\* SQL; and no infer call calls the client more than once.
C15_StageFailureBecomesText ==
    handler = "infer" =>
        /\ Cardinality(RouterLlmCalls(log)) <= 1
        /\ \A e \in StageFailure(log) :
              /\ ~result.raised
              /\ result.val.mode = "text"
              /\ result.val.text = PyStr("Router error: " \o e)
              /\ result.val.name = PyNone /\ result.val.args = PyNone /\ result.val.sql = PyNone
              /\ Cardinality(RouterLlmCalls(log)) = 1

\* the client answered with a DROP statement in a fence; the gate rejected it
\* and infer returned the router error as text
C15_Witness ==
    /\ handler = "infer" /\ llm.kind = "content"
    /\ StageFailure(log) # {}
    /\ ~result.raised /\ result.val.mode = "text"
    /\ StartsWith(result.val.text[2], "Router error: ")


\* the tool names the turn dispatched that came from a language model: the
\* tool planner's choice (AgentPro.run) and the router client's tool call
PlannedTools ==
    IF handler = "run" /\ Len(log) > 0 /\ log[1].op = "chat" /\ log[1].res.ok
    THEN LET parsed == plan_json_loads(Strip(log[1].res.val)) IN
         IF parsed.ok /\ parsed.val[1] = "dict" /\ Has(parsed.val, "tool")
         THEN {Get(parsed.val, "tool", PyNone)} ELSE {}
    ELSE {}

RoutedTools == IF llm.kind = "tool" THEN {llm.name} ELSE {}

\* the names the dispatcher of the turn's handler does not know
UnknownTo(h) ==
    {name \in PlannedTools \cup RoutedTools :
        name[1] # "str" \/ name[2] \notin (IF h = "ask" THEN CHATBOT_TOOLS ELSE AGENT_TOOLS)}

\* the outcome is the lookup error for name: AgentPro._run_tool raises it,
\* Chatbot._run_tool answers with it, without table and title
IsLookupError(name) ==
    IF handler = "run"
    THEN result.raised /\ result.exc = "Unknown tool " \o FormatName(name)
    ELSE /\ ~result.raised
         /\ result.val = Resp(PyStr("Unknown tool: " \o FormatName(name)), "None", PyNone)

DECISION_MODES == {"tool", "sql", "agent", "rag", "text"}

\* the payload of the decision d is the one its mode selects, and no other
PayloadMatchesMode(d) ==
    /\ d.mode \in DECISION_MODES
    /\ IF d.mode = "tool" THEN d.name # PyNone /\ d.args # PyNone
                          ELSE d.name = PyNone /\ d.args = PyNone
    /\ d.sql # PyNone <=> d.mode = "sql"
    /\ d.text # PyNone <=> d.mode = "text"

\* C17 (as claimed): every decision NLRouter.infer returns has a mode out of
\* tool, sql, agent, rag, text; name and args are non-null iff mode=tool, sql
\* is non-null iff mode=sql, text is non-null iff mode=text.
C17_PayloadMatchesMode ==
    handler = "infer" => ~result.raised /\ PayloadMatchesMode(result.val)

\* C17's failing input: the client's tool call carries the JSON text null as
\* its arguments, and the decision is mode=tool with args null
C17_FailingInputNullArguments ==
    handler = "infer" /\ llm = LlmToolCall(PyStr("list_floors"), PyStr("null"))
        => /\ result.val.mode = "tool" /\ result.val.name = PyStr("list_floors")
           /\ result.val.args = PyNone

\* every decision that is not read off a tool call of the client is
\* populated as claimed
C17_HoldsBesidesToolCalls ==
    handler = "infer" /\ llm.kind # "tool" => ~result.raised /\ PayloadMatchesMode(result.val)


(***************************************************************************)
(* Claims about the Escalation Heuristic (checked under SpecRouter)        *)
(***************************************************************************)

\* the question q, lowercased, holds the text w
Mentions(q, w) == Contains(Lower(q), w)

\* the "compare floors" shape: compare, whitespace, floors
ComparesFloors(q) ==
    \E i \in 1..Len(q) : \E k \in 1..Len(q) :
        /\ MatchAt(Lower(q), i, "compare")
        /\ \A j \in (i + 7)..(i + 6 + k) : j <= Len(q) /\ Ch(q, j) \in Whitespace
        /\ MatchAt(Lower(q), i + 7 + k, "floors")

\* escalation as the claim words it
Escalates(q) ==
    \/ \E w \in {"why", "how", "explain", "recommend", "suggest", "tradeoff"} : Mentions(q, w)
    \/ \E w \in {"which rooms are", "what kind of", "describe", "policy", "rules",
                 "definition", "meaning"} : Mentions(q, w)
    \/ Mentions(q, " and ") /\ ~ComparesFloors(q)
    \/ Len(q) > 180

\* C18: _needs_agent(q) is true iff q, lowercased, holds one of the causal or
\* discovery keywords, or " and " outside the "compare floors" shape, or is
\* longer than 180 characters; NLRouter.infer, once the two deterministic
\* stages declined, returns mode=agent exactly for these questions; and it
\* returns mode=agent for "why is floor 2 always empty".
C18_EscalationHeuristic ==
    handler = "infer" =>
        \A q \in {Strip(user_text)} :
            /\ _needs_agent(q) <=> Escalates(q)
            /\ Declines1(q) /\ Declines2(q) => (result.val.mode = "agent" <=> Escalates(q))
            /\ q = "why is floor 2 always empty" => result.val.mode = "agent"
            /\ Len(q) = 180 /\ q = Question180 => result.val.mode # "agent"

\* the question of the specification is escalated with every stage enabled
C18_Witness ==
    /\ handler = "infer" /\ user_text = "why is floor 2 always empty"
    /\ FAST_INTENTS /\ FAST_SQL /\ LLM_ROUTING
    /\ result.val.mode = "agent" /\ ~Called(log, "llm")

(***************************************************************************)
(* Claims about the comparison of two floors (checked under SpecCompare)   *)
(***************************************************************************)

\* infer has returned a decision of mode sql
ReturnsSql == ~result.raised /\ result.val.mode = "sql"

\* the statement of the decision is what the router's gate accepted and returned
PassedGate ==
    \E i \in 1..Len(log) :
        log[i].op = "router_gate" /\ log[i].res.ok /\ log[i].res.val = result.val.sql[2]

\* the statement reads floors x and y over the last d days
RestrictedTo(x, y, d) ==
    /\ Contains(result.val.sql[2], "WHERE floor IN (" \o IntToStr(x) \o ", " \o IntToStr(y) \o ")")
    /\ Contains(result.val.sql[2], "INTERVAL '" \o IntToStr(d) \o "' DAY")

\* the rates of the table lie between 0 and 100 percent
RatesInRange == \A i \in 1..Len(rows) : rows[i].occ_rate_percent \in 0..1000

\* the floors of the table, in its order
RowFloors == [i \in 1..Len(rows) |-> rows[i].floor]

\* floor f has an event in the last d days of the data
HasEventsIn(f, d) == \E e \in events : e.floor_n = f /\ e.day >= max_ts(events) - d

\* C19 as stated: every question "compare floors X and Y [last N days]" is
\* routed to a decision of mode sql whose statement passed the gate and reads
\* floors X and Y over N days (7 when no window is named), and the executed
\* statement yields exactly two rows, one per floor, with rates in 0..100.
C19_CompareFloors ==
    \A x \in 2..MaxFloor, y \in 2..MaxFloor, n \in CompareWindows :
        user_text = CompareQuestion(x, y, n) =>
            /\ handler \in {"infer", "execute"} =>
                  ReturnsSql /\ PassedGate /\ RestrictedTo(x, y, IF n < 0 THEN 7 ELSE n)
            /\ handler = "execute" =>
                  Len(rows) = 2 /\ {rows[1].floor, rows[2].floor} = {x, y} /\ RatesInRange

\* C19 as amended: with the Templated SQL Matcher enabled, every such
\* question is routed to a decision of mode sql whose statement passed the
\* gate and reads floors X and Y over N days (7 when no window is named or N
\* is 0), and the executed statement yields, in the order of the floors, one
\* row for each distinct floor among X and Y that has events in that window:
\* two rows exactly when X and Y differ and both have events; each rate lies
\* in 0..100.
C19_CompareFloorsWithEvents ==
    FAST_SQL =>
        \A x \in 2..MaxFloor, y \in 2..MaxFloor, n \in CompareWindows :
            user_text = CompareQuestion(x, y, n) =>
                LET d == IF n <= 0 THEN 7 ELSE n IN
                /\ handler \in {"infer", "execute"} =>
                      ReturnsSql /\ PassedGate /\ RestrictedTo(x, y, d)
                /\ handler = "execute" =>
                      /\ RowFloors = OrderByFloor({f \in {x, y} : HasEventsIn(f, d)})
                      /\ Len(rows) <= 2
                      /\ Len(rows) = 2 <=> x # y /\ HasEventsIn(x, d) /\ HasEventsIn(y, d)
                      /\ RatesInRange

\* a comparison of floors 3 and 2 over a named window was executed and gave
\* two rows, one of them with a rate strictly between 0 and 100
C19_Witness ==
    /\ handler = "execute"
    /\ user_text = CompareQuestion(3, 2, MaxDays)
    /\ Len(rows) = 2
    /\ \E i \in 1..Len(rows) : rows[i].occ_rate_percent \in 1..999

\* the ways the claim as stated fails: the same floor named twice gives at
\* most one row
C19_SameFloorTwice ==
    handler = "execute" /\ user_text = CompareQuestion(2, 2, -1) => Len(rows) <= 1

(***************************************************************************)
(* Claims about the strict-refusal policy (checked under SpecTurn)         *)
(***************************************************************************)

REFUSAL == PyStr("No rows for that query in your data.")

\* the turn went down the tool path or the SQL path of Chatbot.ask and
\* returned
ToolOrSqlTurn ==
    /\ handler = "ask" /\ ~result.raised
    /\ ~Called(log, "agent_run")
    /\ Called(log, "backend") \/ Called(log, "execute") \/ llm.kind = "tool"

\* the table the tool or the statement of the turn produced: the table of the
\* executed statement, none after an error of the connection; the table of
\* the tool's backend call (of the floors for data_profile_summary, of the
\* merge of both calls for data_overview); none when no backend was called
ProducedTable ==
    LET calls == DbCalls(log)
        last == log[Max(calls)]
    IN IF calls = {} THEN "None"
       ELSE IF ~last.res.ok THEN "None"
       ELSE IF Cardinality(calls) = 2 /\ last.arg = "utilization_by_floor"
       THEN (IF \E i \in calls : log[i].res.val = "rows" THEN "rows" ELSE "empty")
       ELSE last.res.val

\* C20: in Chatbot.ask with strict on, an empty table of a tool or of a
\* statement is replaced by the "No rows" refusal, which carries no table; a
\* null table is answered as plain text, not as the refusal; with strict off
\* the empty table is returned as it is.
C20_StrictRefusesEmptyOnly ==
    ToolOrSqlTurn =>
        /\ strict /\ ProducedTable = "empty" =>
              result.val.text = REFUSAL /\ result.val.df = "None" /\ result.val.title = PyNone
        /\ ProducedTable = "None" =>
              /\ result.val.df = "None"
              /\ result.val.text[1] = "str"
              /\ result.val.text # REFUSAL
        /\ ~strict /\ ProducedTable = "empty" =>
              result.val.df = "empty" /\ result.val.text # REFUSAL

\* strict is on, the model called a tool the dispatcher does not know, and the
\* answer is the text about the unknown tool with no table
C20_Witness ==
    /\ ToolOrSqlTurn /\ strict
    /\ llm.kind = "tool" /\ ~Called(log, "backend")
    /\ ProducedTable = "None"
    /\ result.val.df = "None"
    /\ result.val.text = PyStr("Unknown tool: None")

(***************************************************************************)
(* Claims about the Model-Assisted Planner (checked under SpecPlan)        *)
(***************************************************************************)

\* the calls of llm_client.chat by the planner who, in the log l
PlannerCalls(l, who) == {i \in ChatCalls(l) : l[i].arg = who}

\* the text of a planner's answer without the white space and the backquotes
\* around it begins with select or with
BeginsReadOnly(text) ==
    \E kw \in {"select", "with"} : StartsWith(Lower(StripBackquotes(Strip(text))), kw)

\* the error planner.plan ends with when the tool planner's answer is JSON but
\* no object
NOT_AN_OBJECT == "TypeError: argument of type 'NoneType' is not iterable"

\* the last call of the log l is a call of one of the two planners
EndsAtPlanner(l) ==
    l # <<>> /\ l[Len(l)].op = "chat" /\ l[Len(l)].arg \in {"tool_planner", "sql_planner"}

\* plan ended with an error, as the log l of its calls tells: a chat call
\* failed, or the tool planner's answer is JSON but no object
PlanRaised(l) ==
    \/ \E i \in PlannerCalls(l, "tool_planner") \cup PlannerCalls(l, "sql_planner") : ~l[i].res.ok
    \/ l[1].res.ok /\ plan_json_loads(Strip(l[1].res.val)) = Ok(PyNone)

\* every chat call of the planners returned an answer
PlannersAnswered(l) ==
    \A i \in PlannerCalls(l, "tool_planner") \cup PlannerCalls(l, "sql_planner") : l[i].res.ok

\* the order of the planner's calls: the tool planner first and once; the
\* SQL-only planner at most once, as the second call, and only after an answer
\* of the tool planner that is not JSON
PlannerOrder ==
    /\ log # <<>> /\ log[1].op = "chat" /\ log[1].arg = "tool_planner"
    /\ Cardinality(PlannerCalls(log, "tool_planner")) = 1
    /\ Cardinality(PlannerCalls(log, "sql_planner")) <= 1
    /\ \A i \in PlannerCalls(log, "sql_planner") :
          i = 2 /\ log[1].res.ok /\ ~plan_json_loads(Strip(log[1].res.val)).ok

\* C21 as stated: plan asks the tool planner first; it asks the SQL-only
\* planner, as its second and last chat call, only if the tool planner's
\* answer fails to parse; an answer of the SQL-only planner that does not
\* begin with select or with gives a final refusal text; a decision of mode
\* sql begins with select or with; and whatever the planners answer, no error
\* comes of it: plan returns, and AgentPro.run does not fail on the planner's
\* decision.
C21_PlannerFallbackSequence ==
    /\ handler \in {"plan", "run"} => PlannerOrder
    /\ handler = "plan" /\ PlannersAnswered(log) => ~result.raised
    /\ handler = "run" /\ PlannersAnswered(log) /\ result.raised => ~EndsAtPlanner(log)

\* what holds of C21: the order of the calls, the refusal, the shape of a
\* decision of mode sql; plan fails only when a chat call fails or the tool
\* planner's answer is JSON but no object, and AgentPro.run then goes on to
\* the router instead of failing
C21_SequenceBesidesNonObjects ==
    /\ handler \in {"plan", "run"} => PlannerOrder
    /\ handler = "plan" =>
          /\ \A i \in PlannerCalls(log, "sql_planner") :
                log[i].res.ok /\ ~BeginsReadOnly(log[i].res.val) =>
                    /\ ~result.raised
                    /\ ~Has(result.val, "mode") /\ ~Has(result.val, "tool")
                    /\ Get(result.val, "final", PyNone)[1] = "str"
                    /\ Truthy(Get(result.val, "final", PyNone))
          /\ ~result.raised /\ Get(result.val, "mode", PyNone) = PyStr("sql") =>
                \E kw \in {"select", "with"} :
                    StartsWith(Lower(Get(result.val, "sql", PyStr(""))[2]), kw)
    /\ handler = "plan" => (result.raised <=> PlanRaised(log))
    /\ handler = "run" /\ PlanRaised(log) =>
          /\ ~EndsAtPlanner(log)
          /\ result.raised => result.exc # NOT_AN_OBJECT

\* the failing inputs of C21: the tool planner answers null, and plan raises
\* the TypeError; the tool planner names rooms_on_floor without arguments,
\* and AgentPro.run raises the KeyError of the missing floor
C21_FailingInputNonObject ==
    /\ handler = "plan" /\ log[1].res = Ok(" null ") => result.raised /\ result.exc = NOT_AN_OBJECT
    /\ handler = "run" /\ log[1].res = Ok("{\"tool\": \"rooms_on_floor\"}") =>
          result.raised /\ result.exc = "KeyError: 'floor'" /\ EndsAtPlanner(log)


(***************************************************************************)
(* Claims about the router's state (checked under SpecSession)             *)
(***************************************************************************)

\* the call was resolved by stage 1, 2 or 3: the client was not asked
ResolvedEarly == handler = "infer" /\ ~Called(log, "llm")

PlannedTool == handler = "plan" /\ ~result.raised /\ Has(result.val, "tool")

\* what the tool planner answered, read as JSON
Answered == plan_json_loads(Strip(log[1].res.val)).val

\* the arguments of the tool planner's answer; an answer without arguments
\* has none
GivenArgs == Get(Answered, "args", PyDict({}))

\* the arguments of the decision plan returned
PlannedArgs == Get(result.val, "args", PyNone)

\* the floor of the arguments a is a blank string
BlankFloor(a) ==
    Has(a, "floor") /\ Get(a, "floor", PyNone)[1] = "str" /\ Strip(Get(a, "floor", PyNone)[2]) = ""

\* the hour is to be added: the coffee planner, a question with "now", and no
\* hours among the arguments a
WantsHour(a) ==
    /\ Get(result.val, "tool", PyNone) = PyStr("plan_coffee_machines")
    /\ Contains(Lower(user_text), "now")
    /\ ~Has(a, "hours")

\* the arguments a with the two normalisations applied
Normalised(a) ==
    LET floored == IF BlankFloor(a) THEN Put(a, "floor", PyNone) ELSE a
    IN IF WantsHour(a) THEN Put(floored, "hours", PyInt(1)) ELSE floored

\* C23 as stated: in a tool decision of plan a blank floor is null, the
\* coffee planner asked "now" without hours gets hours = 1, and in every other
\* case the arguments are those of the tool planner's answer, unchanged.
C23_ArgsNormalised ==
    PlannedTool =>
        IF GivenArgs = PyNone THEN PlannedArgs = PyNone
        ELSE PlannedArgs = Normalised(GivenArgs)

\* C23 as amended: as stated, except that arguments the answer gives as null
\* (or leaves out) are returned as an empty mapping, to which the hour is
\* added when it applies.
C23_ArgsNormalisedOrEmpty ==
    PlannedTool =>
        PlannedArgs = Normalised(IF GivenArgs = PyNone THEN PyDict({}) ELSE GivenArgs)

\* the coffee planner was chosen with a blank floor and no hours for a
\* question with "now": the floor is null, the hour is added, the days stay
C23_Witness ==
    /\ PlannedTool /\ GivenArgs # PyNone
    /\ BlankFloor(GivenArgs) /\ WantsHour(GivenArgs)
    /\ PlannedArgs = PyDict({<<"floor", PyNone>>, <<"days", PyInt(7)>>, <<"hours", PyInt(1)>>})


(***************************************************************************)
(* Claims about the order of the matchers (checked under SpecIntent)       *)
(***************************************************************************)

\* the tools of the matchers in the order of the claim
MATCHER_ORDER == <<"list_floors", "rooms_on_floor", "free_meeting_rooms_now",
                   "utilization_by_floor", "utilization_floor", "busiest_rooms",
                   "underused_rooms", "plan_coffee_machines">>

\* the condition on which matcher i returns a decision for the question q:
\* its keywords, and for free-meeting-rooms and utilization-of-floor the floor
\* they need
Fires(i, q) ==
    LET qn == _normalize_text(q) IN
    CASE i = 1 -> _intent_list_floors(q)
      [] i = 2 -> _intent_rooms_on_floor(q) # PyNone
      [] i = 3 -> IsFreeMeetingRooms(qn) /\ Truthy(_parse_floor(qn))
      [] i = 4 -> IsUtilizationByFloor(qn)
      [] i = 5 -> IsUtilizationOfFloor(qn) /\ Truthy(_parse_floor(qn))
      [] i = 6 -> IsBusiestRooms(qn)
      [] i = 7 -> IsUnderusedRooms(qn)
      [] i = 8 -> IsCoffeeMachine(qn)

\* the matchers whose condition holds for the question
Firing == {i \in 1..8 : Fires(i, question)}

C24_FallsThroughWithoutFloor ==
    asked /\ question = "free meeting rooms now near the coffee machine" =>
        /\ IsFreeMeetingRooms(_normalize_text(question))
        /\ 3 \notin Firing
        /\ decision.name = PyStr("plan_coffee_machines")


(***************************************************************************)
(* Claims about the window of a question (checked under SpecIntent)        *)
(***************************************************************************)

\* the words for the present moment
NowWords == {"now", "right now", "currently", "this moment"}

\* the counts a question may put between last/past and the unit
WindowCounts == 0..(MaxDays + 1)

\* how many days one unit counts
UnitDays == {<<"day", 1>>, <<"week", 7>>, <<"month", 30>>}

\* the day counts of the phrases "last/past N days/weeks/months" in q
DaysNamed(q) ==
    {nu[1] * nu[2][2] :
        nu \in {cu \in WindowCounts \X UnitDays :
                   \E lead \in {"last ", "past "}, sp \in {"", " "} :
                       Contains(q, lead \o NatToStr(cu[1]) \o sp \o cu[2][1])}}

\* the window a matcher takes when the question names none
DefaultWindow(name) ==
    CASE name = PyStr("underused_rooms") -> PyInt(30)
      [] name = PyStr("plan_coffee_machines") -> PyInt(14)
      [] OTHER -> PyInt(7)

\* <<days, hours>> read from the question asked
WindowRead == _parse_days_hours(_normalize_text(question))

\* the decision has a day count
DecidesDays == decision.mode = "tool" /\ Has(decision.args, "days")

\* C25: a word for the present moment gives hours = 1 and no day count;
\* otherwise "last/past N days" gives N days, "N weeks" 7N and "N months" 30N;
\* otherwise a bare "last week" gives 7 and a bare "last month" 30; a question
\* with none of these gives neither, and the matcher's decision then carries
\* its default window; a day count that was read is the one the decision
\* carries.
C25_WindowOfQuestion ==
    asked =>
        LET qn == _normalize_text(question) IN
        /\ IF SearchWholeWord(qn, NowWords) THEN WindowRead = <<PyNone, PyInt(1)>>
           ELSE IF DaysNamed(qn) # {}
                THEN \A d \in DaysNamed(qn) :
                         DaysNamed(qn) = {d} => WindowRead = <<PyInt(d), PyNone>>
           ELSE IF Contains(qn, "last week") \/ Contains(qn, "past week")
                THEN WindowRead = <<PyInt(7), PyNone>>
           ELSE IF Contains(qn, "last month") \/ Contains(qn, "past month")
                THEN WindowRead = <<PyInt(30), PyNone>>
           ELSE /\ WindowRead = <<PyNone, PyNone>>
                /\ DecidesDays =>
                       Get(decision.args, "days", PyNone) = DefaultWindow(decision.name)
        /\ DecidesDays /\ Truthy(WindowRead[1]) =>
               Get(decision.args, "days", PyNone) = WindowRead[1]

\* a question over the past 3 weeks was decided with a window of 21 days
C25_Witness ==
    /\ asked
    /\ Contains(question, "past 3 weeks")
    /\ DecidesDays
    /\ Get(decision.args, "days", PyNone) = PyInt(21)


(***************************************************************************)
(* Claims about room codes (checked under SpecIntent)                      *)
(***************************************************************************)

Letters == "abcdefghijklmnopqrstuvwxyz"

\* where a room code <digit>.<alnum> begins in qn
RoomCodesAt(qn) ==
    {i \in 1..(Len(qn) - 2) :
        /\ Boundary(qn, i) /\ IsDigit(Ch(qn, i))
        /\ Ch(qn, i + 1) = "."
        /\ IsDigit(Ch(qn, i + 2)) \/ Contains(Letters, Ch(qn, i + 2))}

\* the question names a room by its code, with a room word and without a
\* floor keyword followed by a number
NamesRoomByCode(q) ==
    LET qn == _normalize_text(q) IN
    /\ _contains_any(qn, _ROOM_WORDS)
    /\ RoomCodesAt(qn) # {}
    /\ ~SearchKeywordNumber(qn, ROOMS_FLOOR_KEYWORDS).found

\* the leading digit of the first room code of the question
CodeFloor(q) ==
    LET qn == _normalize_text(q) IN DigitVal(Ch(qn, Min(RoomCodesAt(qn))))

\* the digits that follow the dot of the first room code, up to a letter
CodeDigits(q) ==
    LET qn == _normalize_text(q)
        i == Min(RoomCodesAt(qn))
    IN IF IsWordAt(qn, DigitsEnd(qn, i + 2)) THEN 0 ELSE DigitsEnd(qn, i + 2) - (i + 2)

\* rooms-on-floor answered the question with the floor f
RoomsOnFloorOf(f) ==
    /\ _intent_rooms_on_floor(question) = PyInt(f)
    /\ ~_intent_list_floors(question) =>
           /\ decision.mode = "tool"
           /\ decision.name = PyStr("rooms_on_floor")
           /\ Get(decision.args, "floor", PyNone) = PyStr(IntToStr(f))

\* C26: for a question with a room word, a room code <digit>.<alnum> and no
\* floor keyword with a number, the rooms-on-floor matcher infers the code's
\* leading digit as the floor and returns rooms_on_floor with that floor.
C26_FloorFromRoomCode ==
    asked /\ NamesRoomByCode(question) => RoomsOnFloorOf(CodeFloor(question))

\* the part of C26 that the code keeps: a code whose part after the dot is two
\* or three digits gives its leading digit as the floor
C26_FloorFromDigitCode ==
    asked /\ NamesRoomByCode(question) /\ CodeDigits(question) \in {2, 3} =>
        RoomsOnFloorOf(CodeFloor(question))

\* the room 9.T32 is not recognised: the matcher returns None and no matcher
\* answers
C26_FailingInputLetterCode ==
    asked /\ question = "room 9.T32" =>
        /\ NamesRoomByCode(question)
        /\ _intent_rooms_on_floor(question) = PyNone
        /\ decision = NoDecision


(***************************************************************************)
(* Claims about free meeting rooms on a floor (checked under SpecIntent)   *)
(***************************************************************************)

\* the floors N for which the question asks "free meeting rooms now on floor N"
FreeRoomsFloorsAsked ==
    {n \in 0..(MaxFloor + 1) :
        LET phrase == "free meeting rooms now on floor " \o NatToStr(n)
            qn == _normalize_text(question)
        IN \E i \in 1..Len(qn) :
               MatchAt(qn, i, phrase) /\ ~IsDigit(Ch(qn \o " ", i + Len(phrase)))}

\* C27: a question asking for free meeting rooms now on floor N is decided as
\* the tool free_meeting_rooms_now with floor = the string N.
C27_FreeMeetingRoomsOnFloor ==
    asked =>
        \A n \in FreeRoomsFloorsAsked :
            /\ decision.mode = "tool"
            /\ decision.name = PyStr("free_meeting_rooms_now")
            /\ Get(decision.args, "floor", PyNone) = PyStr(NatToStr(n))

\* the documented question is decided as rooms_on_floor
C27_FailingInputDocumented ==
    asked /\ question = "free meeting rooms now on floor 2" =>
        /\ FreeRoomsFloorsAsked = {2}
        /\ decision.name = PyStr("rooms_on_floor")
        /\ decision.args = PyDict({<<"floor", PyStr("2")>>})

\* no question that names its floor as "floor N" is decided as
\* free_meeting_rooms_now: "meeting room" has the room word, so an earlier
\* matcher answers
C27_NeverWithNamedFloor ==
    asked /\ FreeRoomsFloorsAsked # {} =>
        decision.name \in {PyStr("rooms_on_floor"), PyStr("list_floors")}


(***************************************************************************)
(* Claims about the two gates together (checked under SpecGate)            *)
(***************************************************************************)

\* AgentPro.run has validated the router's statement a second time
Revalidated == handler = "run" /\ passes = 2

\* C28: the router's gate and the DB client's gate accept the same inputs,
\* and a statement the router's gate accepted is accepted and returned
\* unchanged by the DB client's gate when AgentPro.run validates it again.
C28_GatesAgree ==
    /\ passes >= 1 =>
           RouterEnsureSafeSelect(sql).ok = DbEnsureSafeSelect(sql, TRUE).ok
    /\ Revalidated => second = Ok(first.val)

\* a statement that selects a text with the word call is accepted and wrapped
\* by the router's gate and rejected by the DB client's gate
C28_FailingInputCall ==
    sql = "select 'a call b'" =>
        /\ RouterEnsureSafeSelect(sql) = Ok(RouterWrap(sql))
        /\ DbEnsureSafeSelect(sql, TRUE) = Err("Unsafe keyword detected.")
        /\ Revalidated => second = Err("Unsafe keyword detected.")

\* a statement that selects a text with the word create is rejected by the
\* router's gate and accepted by the DB client's gate
C28_FailingInputCreate ==
    sql = "select 'to create x'" =>
        /\ RouterEnsureSafeSelect(sql) = Err("Unsafe keyword detected.")
        /\ DbEnsureSafeSelect(sql, TRUE) = Ok(DbWrap(sql))

\* a word only one gate bans, delimited by spaces
OneGateWord(s) ==
    LET low == " " \o Strip(Lower(s)) \o " " IN
    \/ Contains(low, " call ") \/ Contains(low, " replace into ")
    \/ Contains(low, " create ")

\* the part of C28 that the code keeps: without a word only one gate bans the
\* two gates accept the same inputs, and without a comment the second
\* validation returns the router's statement unchanged
C28_AgreeBesidesWordLists ==
    /\ passes >= 1 /\ ~OneGateWord(sql) =>
           RouterEnsureSafeSelect(sql).ok = DbEnsureSafeSelect(sql, TRUE).ok
    /\ Revalidated /\ ~OneGateWord(sql) /\ ~Contains(sql, "--") => second = Ok(first.val)


(***************************************************************************)
(* Claims about the number of coffee machines (checked under SpecIntent)   *)
(***************************************************************************)

\* the numbers of machines the question asks for: "best N", "N coffee",
\* "N machines"
MachinesAsked ==
    LET qn == _normalize_text(question) IN
    {n \in 1..(MaxFloor + 1) :
        \/ Contains(" " \o qn, " best " \o NatToStr(n) \o " ")
        \/ Contains(" " \o qn, " " \o NatToStr(n) \o " coffee")
        \/ Contains(" " \o qn, " " \o NatToStr(n) \o " machines")}

\* coffee-machine-placement answered the question
PlansCoffee == asked /\ decision.mode = "tool" /\ decision.name = PyStr("plan_coffee_machines")

\* k of the decision
DecidedK == Get(decision.args, "k", PyNone)

\* C29: in a coffee-machine-placement decision k is the number of machines
\* the question asks for, and 2 when it states none; a floor number or a day
\* count in the question does not change k.
C29_MachineCount ==
    PlansCoffee =>
        IF MachinesAsked = {} THEN DecidedK = PyInt(2)
        ELSE \E n \in MachinesAsked : DecidedK = PyInt(n)

\* a question that names a floor and no count gets the floor as k
C29_FailingInputFloorAsCount ==
    asked /\ question = "coffee machine spots on floor 3" =>
        /\ PlansCoffee
        /\ MachinesAsked = {}
        /\ DecidedK = PyInt(3)

\* the part of C29 that the code keeps: k is 2 for a question without any
\* number, and the count asked for when that is the first number of the
\* question
C29_FirstNumberIsCount ==
    PlansCoffee =>
        LET first_int == _parse_int(_normalize_text(question)) IN
        /\ first_int = PyNone => DecidedK = PyInt(2)
        /\ first_int # PyNone /\ first_int[2] \in MachinesAsked => DecidedK = first_int


(***************************************************************************)
(* SpecAgent: concurrent calls of Chatbot.ask on one Chatbot               *)
(***************************************************************************)

\* how many calls of ask run at the same time on the shared Chatbot
MaxCalls == 3

AskCalls == 1..MaxCalls

\* where a call stands, the route its decision took, the agent it built
CallAt(at, mode, made) == [at |-> at, mode |-> mode, made |-> made]

\* chatbot.py:26 and ui.py:21-23  one Chatbot, its agent not yet created, and
\* the calls of the sessions that share it about to start
InitAgent ==
    /\ _agent = PyNone
    /\ askpc = [c \in AskCalls |-> CallAt("start", "none", 0)]
    /\ built = 0
    /\ used = <<>>
    /\ GateIdle
    /\ IntentIdle
    /\ TurnIdle
    /\ DataIdle
    /\ SessionIdle

Step(c, at, mode, made) == askpc' = [askpc EXCEPT ![c] = CallAt(at, mode, made)]

\* chatbot.py:153-157, 197  the decision of the router sends the call to the
\* agent, to the document search of the agent, or elsewhere
AskRoute(c) ==
    /\ askpc[c].at = "start"
    /\ \E mode \in {"agent", "rag", "tool"} :
          Step(c, IF mode = "tool" THEN "done" ELSE "check", mode, 0)
    /\ UNCHANGED <<_agent, built, used>>

\* chatbot.py:29  `if self._agent is None:`
EnsureAgentCheck(c) ==
    /\ askpc[c].at = "check"
    /\ Step(c, IF _agent = PyNone THEN "build" ELSE "use", askpc[c].mode, 0)
    /\ UNCHANGED <<_agent, built, used>>

\* chatbot.py:33  LCAgent(self.db, with_rag=with_rag): a new agent
EnsureAgentBuild(c) ==
    /\ askpc[c].at = "build"
    /\ built' = built + 1
    /\ Step(c, "assign", askpc[c].mode, built + 1)
    /\ UNCHANGED <<_agent, used>>

\* chatbot.py:33  `self._agent = ...`
EnsureAgentAssign(c) ==
    /\ askpc[c].at = "assign"
    /\ _agent' = PyInt(askpc[c].made)
    /\ Step(c, "use", askpc[c].mode, askpc[c].made)
    /\ UNCHANGED <<built, used>>

\* chatbot.py:159, 199  self._agent.run(...) or self._agent.rag_search(...) on
\* the agent the field holds at that moment
AgentUse(c) ==
    /\ askpc[c].at = "use"
    /\ used' = Append(used, [call |-> c, mode |-> askpc[c].mode, agent |-> _agent[2]])
    /\ Step(c, "done", askpc[c].mode, askpc[c].made)
    /\ UNCHANGED <<_agent, built>>

NextAgent ==
    \E c \in AskCalls :
        /\ \/ AskRoute(c)
           \/ EnsureAgentCheck(c)
           \/ EnsureAgentBuild(c)
           \/ EnsureAgentAssign(c)
           \/ AgentUse(c)
        /\ UNCHANGED <<gateVars, intentVars, turnVars, dataVars, sessionVars>>

SpecAgent == InitAgent /\ [][NextAgent]_vars

(***************************************************************************)
(* Claims about the shared agent (checked under SpecAgent)                 *)
(***************************************************************************)

\* C30: whatever the interleaving of the concurrent calls of ask on the
\* shared Chatbot, the agent is constructed at most once and every agent or
\* rag turn uses that one instance.
C30_OneAgent ==
    /\ built <= 1
    /\ \A i \in 1..Len(used) : used[i].agent = 1

\* two calls that both read the field before either has stored its agent
\* both build one (check, check, build, build), and the turn of the first may
\* run on the agent of the second: the agents the turns ran on are among
\* those of the calls that built one, and no call builds after it has found
\* an agent
C30_FailingInputBothBuild ==
    /\ \A i \in 1..Len(used) : \E c \in AskCalls : askpc[c].made = used[i].agent
    /\ \A c \in AskCalls : askpc[c].made # 0 => askpc[c].at \in {"assign", "use", "done"}
    /\ built <= Cardinality({c \in AskCalls : askpc[c].mode \in {"agent", "rag"}})

\* what the code keeps: an agent is built only by a call that found none, each
\* such call builds one, and every turn runs on an agent that was built
C30_OneAgentPerBuilder ==
    /\ built = Cardinality({c \in AskCalls : askpc[c].made # 0})
    /\ \A i \in 1..Len(used) : used[i].agent \in 1..built
    /\ _agent # PyNone => _agent[2] \in 1..built

=============================================================================
